---- MODULE Spec2Model ----
(***************************************************************************)
(* Model of hrsf::SceneFormat (material compaction and verification) and   *)
(* of hrsf::Path (the animation path evaluator).                           *)
(*                                                                         *)
(* Material ids are 0-based as in the source; TLA+ sequences are 1-based,  *)
(* so the material with id i is m_materials[i + 1].                        *)
(***************************************************************************)
EXTENDS Integers, Sequences, FiniteSets, TLC

\* ------------------------------------------------------------------------
\* Bounds of the model
\* ------------------------------------------------------------------------
MaxMaterials == 3
MaxMeshes == 2
MaxRefs == 2
MaxLights == 1

\* ------------------------------------------------------------------------
\* 32 bit floats of a billboard vertex buffer, as their IEEE-754 fields.
\* The floats and unsigned integers of the model have the top bit clear
\* (non-negative floats, integers below 2^31).
\* ------------------------------------------------------------------------
TwoPow23 == 2^23
MaxUInt31 == (2^30 - 1) + 2^30

Float(e, m) == [exponent |-> e, mantissa |-> m]

\* 1.0f, used for the position components of a vertex
FloatOne == Float(127, 0)

\* bmf::asInt: the bits of the float, read as an unsigned integer
asInt(f) == f.exponent * TwoPow23 + f.mantissa

\* bmf::asFloat: the float whose bits are those of the unsigned integer
asFloat(n) == Float((n \div TwoPow23) % 256, n % TwoPow23)

\* static_cast<uint32_t>(float) for the floats of this model: a denormal or
\* zero truncates to 0, 1.0f to 1 (the numeric conversion asInt is not)
NumericCast(f) == IF f = FloatOne THEN 1 ELSE 0

\* ------------------------------------------------------------------------
\* Billboard vertex layout (bmf attributes)
\* ------------------------------------------------------------------------
AttrPosition == "Position"
AttrMaterial == "Material"

\* number of floats an attribute occupies in a vertex
AttributeElementCount(a) == IF a = AttrPosition THEN 3 ELSE 1

\* bmf::getAttributeElementStride: floats per vertex
getAttributeElementStride(attributes) ==
    (IF AttrPosition \in attributes THEN AttributeElementCount(AttrPosition) ELSE 0)
  + (IF AttrMaterial \in attributes THEN AttributeElementCount(AttrMaterial) ELSE 0)

\* bmf::getAttributeElementOffset of the Material attribute: it follows Position
getAttributeElementOffset(attributes) ==
    IF AttrPosition \in attributes THEN AttributeElementCount(AttrPosition) ELSE 0

\* BinaryMesh::getMaterialAttribBuffer: the material index of every vertex
getMaterialAttribBuffer(billboard) ==
    LET stride == getAttributeElementStride(billboard.attributes)
        offset == getAttributeElementOffset(billboard.attributes)
        vertexCount == Len(billboard.vertices) \div stride
    IN  [i \in 1..vertexCount |-> asInt(billboard.vertices[offset + (i - 1) * stride + 1])]

\* ------------------------------------------------------------------------
\* hrsf::Path: construction and validation
\* ------------------------------------------------------------------------
Origin == <<0, 0, 0>>

PathSection(time, position) == [time |-> time, position |-> position]

\* Path::Path(section, scale): the path is a circle when its last section
\* ends in the origin
Path(section, scale) ==
    [m_sections |-> section,
     m_curSection |-> 0,
     m_scale |-> scale,
     m_time |-> 0,
     m_isCircle |-> IF section = <<>> THEN FALSE
                    ELSE section[Len(section)].position = Origin]

\* Path(): no sections; the members without initialiser are zeroed
DefaultPath ==
    [m_sections |-> <<>>, m_curSection |-> 0, m_scale |-> 0, m_time |-> 0,
     m_isCircle |-> FALSE]

\* Path::verify comparing with `<`: a section time of 0 passes
PathVerify_Strict(p) == \A i \in 1..Len(p.m_sections) : ~(p.m_sections[i].time < 0)

\* Path::verify: TRUE when it returns, FALSE when it throws
PathVerify(p) == \A i \in 1..Len(p.m_sections) : ~(p.m_sections[i].time <= 0)

\* ------------------------------------------------------------------------
\* hrsf::Path: evaluation. Times and coordinates are integers, sampled
\* positions are exact fractions num / den (den > 0) in lowest terms.
\* ------------------------------------------------------------------------
MaxSections == 3
MaxDt == 3

Abs(x) == IF x < 0 THEN -x ELSE x

RECURSIVE GCD(_, _)
GCD(a, b) == IF b = 0 THEN a ELSE GCD(b, a % b)

VecScale(v, k) == <<v[1] * k, v[2] * k, v[3] * k>>
VecAdd(v, w) == <<v[1] + w[1], v[2] + w[2], v[3] + w[3]>>
VecSub(v, w) == <<v[1] - w[1], v[2] - w[2], v[3] - w[3]>>

\* the vector num / den
Frac(num, den) ==
    LET g == GCD(GCD(GCD(Abs(num[1]), Abs(num[2])), Abs(num[3])), den)
    IN  [num |-> <<num[1] \div g, num[2] \div g, num[3] \div g>>, den |-> den \div g]

\* a vector with a NaN or infinite component (a division by zero)
NonFinite == [num |-> Origin, den |-> 0]
NoSample == [num |-> Origin, den |-> -1]

\* float arithmetic on the elapsed time (float m_time, float dt): a
\* non-negative integer below 2^24 is a float; a larger one is rounded to
\* the nearest multiple of its unit in the last place, ties to the even one
TwoPow24 == 2 * TwoPow23

RECURSIVE Ulp(_)
Ulp(x) == IF x < TwoPow24 THEN 1 ELSE 2 * Ulp(x \div 2)

RoundToFloat(x) ==
    LET u == Ulp(x)
        q == x \div u
        r == x % u
    IN  IF 2 * r < u THEN q * u
        ELSE IF 2 * r > u THEN (q + 1) * u
        ELSE IF q % 2 = 0 THEN q * u ELSE (q + 1) * u

FloatAdd(a, b) == RoundToFloat(a + b)
FloatSub(a, b) == RoundToFloat(a - b)

\* a turn of the loop of update that changes nothing: every section is
\* shorter than `time` and subtracting it leaves `time` as it is
Absorbed(sections, time) ==
    \A i \in 1..Len(sections) :
        /\ sections[i].time < time
        /\ FloatSub(time, sections[i].time) = time

\* Path::update, lines 72-78: the loop, run for at most `fuel` rounds. Each
\* full turn through the sections of a loop that ends lowers m_time by at
\* least 1, so a loop that outlives the fuel update gives it never ends; a
\* loop whose turn changes nothing never ends either.
RECURSIVE Rollover(_, _, _, _)
Rollover(sections, curSection, time, fuel) ==
    IF ~(sections[curSection + 1].time < time)
    THEN [m_curSection |-> curSection, m_time |-> time, ends |-> TRUE]
    ELSE IF fuel = 0 \/ Absorbed(sections, time)
    THEN [m_curSection |-> curSection, m_time |-> time, ends |-> FALSE]
    ELSE Rollover(sections, (curSection + 1) % Len(sections),
                  FloatSub(time, sections[curSection + 1].time), fuel - 1)

\* update with `if` for `while`: at most one section is left behind
update_SingleRollover(p, dt) ==
    IF p.m_sections = <<>> THEN [path |-> p, ends |-> TRUE]
    ELSE LET r == Rollover(p.m_sections, p.m_curSection, FloatAdd(p.m_time, dt), 1)
         IN  [path |-> [p EXCEPT !.m_curSection = r.m_curSection, !.m_time = r.m_time],
              ends |-> TRUE]

\* update with `m_time = dt` for `m_time += dt`
update_FromZero(p, dt) ==
    IF p.m_sections = <<>> THEN [path |-> p, ends |-> TRUE]
    ELSE LET r == Rollover(p.m_sections, p.m_curSection, dt,
                           Len(p.m_sections) * (dt + 2))
         IN  [path |-> [p EXCEPT !.m_curSection = r.m_curSection, !.m_time = r.m_time],
              ends |-> r.ends]

\* Path::update
update(p, dt) ==
    IF p.m_sections = <<>> THEN [path |-> p, ends |-> TRUE]
    ELSE LET r == Rollover(p.m_sections, p.m_curSection, FloatAdd(p.m_time, dt),
                           Len(p.m_sections) * (FloatAdd(p.m_time, dt) + 2))
         IN  [path |-> [p EXCEPT !.m_curSection = r.m_curSection, !.m_time = r.m_time],
              ends |-> r.ends]

\* getPoint clamping with `index < 0`: index 0 is the first section, not the
\* origin the path starts in
getPoint_FirstSectionAtZero(p, index) ==
    LET n == Len(p.m_sections)
    IN  IF p.m_isCircle
        THEN VecScale(p.m_sections[((index - 1) % n) + 1].position, p.m_scale)
        ELSE IF index < 0 THEN Origin
        ELSE VecScale(p.m_sections[(IF index < n - 1 THEN index ELSE n - 1) + 1].position,
                      p.m_scale)

\* Path::getPoint(int index): the anchor points of the position path
getPoint(p, index) ==
    LET n == Len(p.m_sections)
    IN  IF p.m_isCircle
        THEN VecScale(p.m_sections[((index - 1) % n) + 1].position, p.m_scale)
        ELSE IF index <= 0 THEN Origin
        ELSE VecScale(p.m_sections[(IF index < n - 1 THEN index ELSE n - 1) + 1].position,
                      p.m_scale)

\* Path::getBezierPoint with t = tnum / tden and the control points given as
\* 6 * cp1 and 6 * cp2
getBezierPoint(left, cp1x6, cp2x6, right, tnum, tden) ==
    IF tden = 0 THEN NonFinite
    ELSE LET t == tnum
             tinv == tden - tnum
         IN  Frac(VecAdd(VecAdd(VecScale(left, 6 * tinv * tinv * tinv),
                                VecScale(cp1x6, 3 * t * tinv * tinv)),
                         VecAdd(VecScale(cp2x6, 3 * t * t * tinv),
                                VecScale(right, 6 * t * t * t))),
                  6 * tden * tden * tden)

\* Path::getPosition
getPosition(p) ==
    IF p.m_sections = <<>> THEN Frac(Origin, 1)
    ELSE IF Len(p.m_sections) = 1
    THEN \* linear interpolation
         IF p.m_sections[1].time = 0 THEN NonFinite
         ELSE IF p.m_sections[1].time < 0
              THEN Frac(VecScale(p.m_sections[1].position, -p.m_time), -p.m_sections[1].time)
              ELSE Frac(VecScale(p.m_sections[1].position, p.m_time), p.m_sections[1].time)
    ELSE \* spline interpolation
         LET preLeft == getPoint(p, p.m_curSection - 1)
             left == getPoint(p, p.m_curSection)
             right == getPoint(p, p.m_curSection + 1)
             postRight == getPoint(p, p.m_curSection + 2)
             cp1x6 == VecAdd(VecScale(left, 6), VecSub(right, preLeft))
             cp2x6 == VecAdd(VecScale(right, 6), VecSub(left, postRight))
             time == p.m_sections[p.m_curSection + 1].time
         IN  IF time < 0 THEN getBezierPoint(left, cp1x6, cp2x6, right, -p.m_time, -time)
             ELSE getBezierPoint(left, cp1x6, cp2x6, right, p.m_time, time)

\* getLookAtPoint taking the anchors of the position path
getLookAtPoint_AsPosition(p, index) == getPoint(p, index)

\* Path::getLookAtPoint(int index): the anchor points of the lookAt path
getLookAtPoint(p, index) ==
    VecScale(p.m_sections[(index % Len(p.m_sections)) + 1].position, p.m_scale)

\* Path::getLookAt
getLookAt(p) ==
    IF p.m_sections = <<>> THEN Frac(Origin, 1)
    ELSE IF Len(p.m_sections) = 1
    THEN \* only look at one position
         Frac(p.m_sections[1].position, 1)
    ELSE LET preLeft == getLookAtPoint(p, p.m_curSection - 2)
             left == getLookAtPoint(p, p.m_curSection - 1)
             right == getLookAtPoint(p, p.m_curSection)
             postRight == getLookAtPoint(p, p.m_curSection + 1)
             cp1x6 == VecAdd(VecScale(left, 6), VecSub(right, preLeft))
             cp2x6 == VecAdd(VecScale(right, 6), VecSub(left, postRight))
             time == p.m_sections[p.m_curSection + 1].time
         IN  IF time < 0 THEN getBezierPoint(left, cp1x6, cp2x6, right, -p.m_time, -time)
             ELSE getBezierPoint(left, cp1x6, cp2x6, right, p.m_time, time)

\* ------------------------------------------------------------------------
\* Meshes
\* ------------------------------------------------------------------------
Triangle == "Triangle"
Billboard == "Billboard"

Shape(id) == [materialId |-> id]

\* bmf::BinaryMesh16 as far as SceneFormat looks at it: the shapes, and
\* whether the mesh's own verify() passes
TriangleBlob(ids, valid) ==
    [shapes |-> [i \in 1..Len(ids) |-> Shape(ids[i])], valid |-> valid]

\* bmf::BinaryMesh with Position and Material attributes: one vertex per
\* material index, the index stored bit-wise in the float after the position
BillboardBlob(ids, valid) ==
    [attributes |-> {AttrPosition, AttrMaterial},
     vertices |-> [k \in 1..(4 * Len(ids)) |->
                     IF (k - 1) % 4 = 3 THEN asFloat(ids[((k - 1) \div 4) + 1])
                     ELSE FloatOne],
     valid |-> valid]

\* bmf::BinaryMesh with the Position attribute only (one vertex)
PlainBillboardBlob(valid) ==
    [attributes |-> {AttrPosition},
     vertices |-> <<FloatOne, FloatOne, FloatOne>>,
     valid |-> valid]

EmptyTriangleBlob == [shapes |-> <<>>, valid |-> TRUE]
EmptyBillboardBlob == [attributes |-> {}, vertices |-> <<>>, valid |-> TRUE]

\* Mesh(bmf::BinaryMesh16 mesh)
TriangleMesh(blob) ==
    [type |-> Triangle, billboard |-> EmptyBillboardBlob, triangle |-> blob,
     position |-> DefaultPath, lookAt |-> DefaultPath]

\* Mesh(bmf::BinaryMesh mesh)
BillboardMesh(blob) ==
    [type |-> Billboard, billboard |-> blob, triangle |-> EmptyTriangleBlob,
     position |-> DefaultPath, lookAt |-> DefaultPath]

\* The material indices a mesh refers to, in the order the code visits them
MeshMaterialIds(m) ==
    IF m.type = Triangle
    THEN [i \in 1..Len(m.triangle.shapes) |-> m.triangle.shapes[i].materialId]
    ELSE IF AttrMaterial \in m.billboard.attributes
         THEN getMaterialAttribBuffer(m.billboard)
         ELSE <<>>

\* ------------------------------------------------------------------------
\* State
\* ------------------------------------------------------------------------
VARIABLES
    m_materials,  \* SceneFormat::m_materials
    m_meshes,     \* SceneFormat::m_meshes
    m_lights,     \* SceneFormat::m_lights
    m_camera,     \* SceneFormat::m_camera
    op,           \* the member function called last ("none" after construction)
    result,       \* how that call ended
    pre,          \* materials and meshes as they were when that call began
    m_path,       \* a Path object that is being evaluated
    pathOp,       \* the member function of m_path called last
    sample,       \* what getPosition or getLookAt returned last
    value,        \* the in-memory value handed to an encoder of the codec
    tree,         \* the json tree an encoder produced or a decoder is given
    decoded,      \* what the decoder returned last
    codecOp,      \* the codec function called last
    m_environment,  \* SceneFormat::m_environment
    files,        \* the file system: file name -> content
    written,      \* the files the last save wrote, in the order of writing
    saved,        \* the arguments of the last save, and how it ended
    loaded,       \* what the last load returned (with the files it opened)
    fileOp        \* the file operation called last

docVars == <<m_materials, m_meshes, m_lights, m_camera, op, result, pre>>
pathVars == <<m_path, pathOp, sample>>
codecVars == <<value, tree, decoded, codecOp>>
fileVars == <<m_environment, files, written, saved, loaded, fileOp>>
vars == <<docVars, pathVars, codecVars, fileVars>>

\* The empty json value, the empty function and "nothing yet"
Nothing == [type |-> "nothing"]
NoFiles == [f \in {} |-> Nothing]

\* No codec function has been called
CodecIdle ==
    /\ value = Nothing
    /\ tree = Nothing
    /\ decoded = Nothing
    /\ codecOp = "none"

\* No file has been written or read
FilesIdle ==
    /\ m_environment = Nothing
    /\ files = NoFiles
    /\ written = <<>>
    /\ saved = Nothing
    /\ loaded = Nothing
    /\ fileOp = "none"

Outcome(what, arg) == [what |-> what, arg |-> arg]
Ok == Outcome("ok", 0)

Snapshot == [materials |-> m_materials, meshes |-> m_meshes]

\* ------------------------------------------------------------------------
\* SceneFormat::removeUnusedMaterials
\* ------------------------------------------------------------------------

\* All material indices of the document, mesh by mesh
InBounds(materials, meshes) ==
    \A i \in 1..Len(meshes) :
        \A k \in DOMAIN MeshMaterialIds(meshes[i]) :
            MeshMaterialIds(meshes[i])[k] < Len(materials)

\* the census without its Billboard branch
IsUsed_TrianglesOnly(materials, meshes) ==
    [id \in 0..(Len(materials) - 1) |->
        \E i \in 1..Len(meshes) :
            /\ meshes[i].type = Triangle
            /\ \E k \in DOMAIN MeshMaterialIds(meshes[i]) :
                MeshMaterialIds(meshes[i])[k] = id]

\* lines 50-70: the census. Only the writes inside the vector are defined.
IsUsed(materials, meshes) ==
    [id \in 0..(Len(materials) - 1) |->
        \E i \in 1..Len(meshes) :
            \E k \in DOMAIN MeshMaterialIds(meshes[i]) :
                MeshMaterialIds(meshes[i])[k] = id]

\* the table built with ++curIndex: the new ids start at 1
MaterialLookup_PreIncrement(isUsed) ==
    [id \in DOMAIN isUsed |->
        IF isUsed[id]
        THEN Cardinality({j \in DOMAIN isUsed : j < id /\ isUsed[j]}) + 1
        ELSE 0]

\* lines 77-87: materialLookup[a] = b, the material id a is changed to b.
\* resize() zeroes the table, the entries of unused materials stay 0.
MaterialLookup(isUsed) ==
    [id \in DOMAIN isUsed |->
        IF isUsed[id]
        THEN Cardinality({j \in DOMAIN isUsed : j < id /\ isUsed[j]})
        ELSE 0]

\* materialLookup[id]; past the end of the table the read is undefined and
\* yields whatever lies there
LookupRead(lookup, id, garbage) ==
    IF id \in DOMAIN lookup THEN lookup[id] ELSE garbage

\* the remap reading the vertex's float with a numeric conversion
RemapMesh_NumericCast(m, lookup, garbage, count) ==
    IF m.type = Triangle
    THEN [m EXCEPT !.triangle.shapes =
            [i \in 1..Len(m.triangle.shapes) |->
                IF i <= count
                THEN [m.triangle.shapes[i] EXCEPT !.materialId =
                        LookupRead(lookup, m.triangle.shapes[i].materialId, garbage)]
                ELSE m.triangle.shapes[i]]]
    ELSE IF ~(AttrMaterial \in m.billboard.attributes) THEN m
    ELSE IF m.billboard.vertices = <<>> THEN m
    ELSE LET verts == m.billboard.vertices
             offset == getAttributeElementOffset(m.billboard.attributes)
             stride == getAttributeElementStride(m.billboard.attributes)
             vertexCount == Len(verts) \div stride
             IsSlot(k) == /\ k > offset
                          /\ (k - 1 - offset) % stride = 0
                          /\ (k - 1 - offset) \div stride < vertexCount
                          /\ (k - 1 - offset) \div stride < count
         IN  [m EXCEPT !.billboard.vertices =
                [k \in 1..Len(verts) |->
                    IF IsSlot(k)
                    THEN asFloat(LookupRead(lookup, NumericCast(verts[k]), garbage))
                    ELSE verts[k]]]

\* lines 92-113 for one mesh, applied to its first `count` references only
RemapMesh(m, lookup, garbage, count) ==
    IF m.type = Triangle
    THEN [m EXCEPT !.triangle.shapes =
            [i \in 1..Len(m.triangle.shapes) |->
                IF i <= count
                THEN [m.triangle.shapes[i] EXCEPT !.materialId =
                        LookupRead(lookup, m.triangle.shapes[i].materialId, garbage)]
                ELSE m.triangle.shapes[i]]]
    ELSE IF ~(AttrMaterial \in m.billboard.attributes) THEN m
    ELSE IF m.billboard.vertices = <<>> THEN m
    ELSE LET verts == m.billboard.vertices
             offset == getAttributeElementOffset(m.billboard.attributes)
             stride == getAttributeElementStride(m.billboard.attributes)
             vertexCount == Len(verts) \div stride
             IsSlot(k) == /\ k > offset
                          /\ (k - 1 - offset) % stride = 0
                          /\ (k - 1 - offset) \div stride < vertexCount
                          /\ (k - 1 - offset) \div stride < count
         IN  [m EXCEPT !.billboard.vertices =
                [k \in 1..Len(verts) |->
                    IF IsSlot(k)
                    THEN asFloat(LookupRead(lookup, asInt(verts[k]), garbage))
                    ELSE verts[k]]]

\* the filter with its test inverted: the unused materials are kept
RECURSIVE FilterUsed_KeepsUnused(_, _, _)
FilterUsed_KeepsUnused(materials, isUsed, i) ==
    IF i > Len(materials) THEN <<>>
    ELSE (IF ~isUsed[i - 1] THEN <<materials[i]>> ELSE <<>>)
         \o FilterUsed_KeepsUnused(materials, isUsed, i + 1)

\* lines 117-126: the used materials, in their original order
RECURSIVE FilterUsed(_, _, _)
FilterUsed(materials, isUsed, i) ==
    IF i > Len(materials) THEN <<>>
    ELSE (IF isUsed[i - 1] THEN <<materials[i]>> ELSE <<>>)
         \o FilterUsed(materials, isUsed, i + 1)

\* The first reference past the end of the material array, in visiting order
HasOutOfBound(materials, meshes) == ~InBounds(materials, meshes)
FirstOutOfBoundMesh(materials, meshes) ==
    CHOOSE i \in 1..Len(meshes) :
        /\ ~InBounds(materials, <<meshes[i]>>)
        /\ \A j \in 1..(i - 1) : InBounds(materials, <<meshes[j]>>)
FirstOutOfBoundRef(materials, m) ==
    LET ids == MeshMaterialIds(m)
    IN  CHOOSE k \in DOMAIN ids :
            /\ ids[k] >= Len(materials)
            /\ \A j \in 1..(k - 1) : ids[j] < Len(materials)

\* What an access past the end of isUsed / materialLookup may do
UBOutcomes == {"continue", "faultInCensus", "faultInRemap"}
GarbageValues == {0, MaxUInt31}

\* Without an access past the end there is nothing to choose
UBChoices(materials, meshes) ==
    IF HasOutOfBound(materials, meshes) THEN UBOutcomes ELSE {"continue"}
GarbageChoices(materials, meshes) ==
    IF HasOutOfBound(materials, meshes) THEN GarbageValues ELSE {0}

\* removeUnusedMaterials without its second loop over the meshes (lines
\* 90-114): the materials are compacted, the references stay
removeUnusedMaterials_NoRemap(materials, meshes, ub, garbage) ==
    LET isUsed == IsUsed(materials, meshes)
    IN  IF \A id \in DOMAIN isUsed : isUsed[id]
        THEN [materials |-> materials, meshes |-> meshes, result |-> Ok]
        ELSE [materials |-> FilterUsed(materials, isUsed, 1),
              meshes |-> meshes,
              result |-> Ok]

\* The whole function. `ub` and `garbage` choose among the behaviours of the
\* undefined accesses isUsed[id] (a write) and materialLookup[id] (a read)
\* with id >= m_materials.size(); they are not looked at otherwise.
removeUnusedMaterials(materials, meshes, ub, garbage) ==
    LET isUsed == IsUsed(materials, meshes)
        oob == HasOutOfBound(materials, meshes)
        materialLookup == MaterialLookup(isUsed)
        unchanged(res) == [materials |-> materials, meshes |-> meshes, result |-> res]
    IN  IF oob /\ ub = "faultInCensus"
        THEN unchanged(Outcome("fault", 0))
        ELSE IF \A id \in DOMAIN isUsed : isUsed[id]
        THEN unchanged(Ok)  \* all materials are used
        ELSE IF oob /\ ub = "faultInRemap"
        THEN LET fm == FirstOutOfBoundMesh(materials, meshes)
                 fr == FirstOutOfBoundRef(materials, meshes[fm])
             IN  [materials |-> materials,
                  meshes |-> [i \in 1..Len(meshes) |->
                                IF i < fm
                                THEN RemapMesh(meshes[i], materialLookup, garbage,
                                               Len(MeshMaterialIds(meshes[i])))
                                ELSE IF i = fm
                                THEN RemapMesh(meshes[i], materialLookup, garbage, fr - 1)
                                ELSE meshes[i]],
                  result |-> Outcome("fault", 0)]
        ELSE [materials |-> FilterUsed(materials, isUsed, 1),
              meshes |-> [i \in 1..Len(meshes) |->
                            RemapMesh(meshes[i], materialLookup, garbage,
                                      Len(MeshMaterialIds(meshes[i])))],
              result |-> Ok]

RemoveUnusedMaterials ==
    /\ result.what # "fault"
    /\ \E ub \in UBChoices(m_materials, m_meshes),
          garbage \in GarbageChoices(m_materials, m_meshes) :
        LET out == removeUnusedMaterials(m_materials, m_meshes, ub, garbage)
        IN  /\ m_materials' = out.materials
            /\ m_meshes' = out.meshes
            /\ result' = out.result
    /\ op' = "removeUnusedMaterials"
    /\ pre' = Snapshot
    /\ UNCHANGED <<m_lights, m_camera>>
    /\ UNCHANGED <<pathVars, codecVars, fileVars>>

\* ------------------------------------------------------------------------
\* SceneFormat::verify
\* ------------------------------------------------------------------------
MaterialError(id) == Outcome("material id out of bound", id)
PathError == Outcome("path section times must be greater than zero", 0)
MeshError == Outcome("mesh verify failed", 0)

PathOutcome(p) == IF PathVerify(p) THEN Ok ELSE PathError

\* The first of the outcomes that is not Ok, Ok when there is none
RECURSIVE FirstError(_)
FirstError(outcomes) ==
    IF outcomes = <<>> THEN Ok
    ELSE IF Head(outcomes) # Ok THEN Head(outcomes)
    ELSE FirstError(Tail(outcomes))

\* the bound check with `>`: an index equal to materials.size() passes
VerifyMesh_OffByOne(m, materials) ==
    LET ids == MeshMaterialIds(m)
        blob == IF m.type = Triangle THEN m.triangle ELSE m.billboard
    IN  FirstError(
            <<IF blob.valid THEN Ok ELSE MeshError>>
         \o [k \in 1..Len(ids) |->
                IF ids[k] > Len(materials) THEN MaterialError(ids[k]) ELSE Ok]
         \o <<PathOutcome(m.position), PathOutcome(m.lookAt)>>)

\* the paths of a mesh checked before its material indices
VerifyMesh_PathsFirst(m, materials) ==
    LET ids == MeshMaterialIds(m)
        blob == IF m.type = Triangle THEN m.triangle ELSE m.billboard
    IN  FirstError(
            <<IF blob.valid THEN Ok ELSE MeshError>>
         \o <<PathOutcome(m.position), PathOutcome(m.lookAt)>>
         \o [k \in 1..Len(ids) |->
                IF ids[k] >= Len(materials) THEN MaterialError(ids[k]) ELSE Ok])

\* lines 145-173, one pass of the loop over the meshes
VerifyMesh(m, materials) ==
    LET ids == MeshMaterialIds(m)
        blob == IF m.type = Triangle THEN m.triangle ELSE m.billboard
    IN  FirstError(
            <<IF blob.valid THEN Ok ELSE MeshError>>
         \o [k \in 1..Len(ids) |->
                IF ids[k] >= Len(materials) THEN MaterialError(ids[k]) ELSE Ok]
         \o <<PathOutcome(m.position), PathOutcome(m.lookAt)>>)

\* lines 142-183
verify(materials, meshes, lights, camera) ==
    FirstError(
        [i \in 1..Len(meshes) |-> VerifyMesh(meshes[i], materials)]
     \o [i \in 1..Len(lights) |-> PathOutcome(lights[i].path)]
     \o <<PathOutcome(camera.lookAtPath), PathOutcome(camera.positionPath)>>)

Verify ==
    /\ result.what # "fault"
    /\ result' = verify(m_materials, m_meshes, m_lights, m_camera)
    /\ op' = "verify"
    /\ pre' = Snapshot
    /\ UNCHANGED <<m_materials, m_meshes, m_lights, m_camera>>
    /\ UNCHANGED <<pathVars, codecVars, fileVars>>

\* ------------------------------------------------------------------------
\* SceneFormat::offsetMaterials
\* ------------------------------------------------------------------------

\* bmf::BinaryMesh16::offsetMaterial: every shape's material index; the
\* indices of the model stay below 2^31
TriangleOffsetMaterial(blob, offset) ==
    [blob EXCEPT !.shapes = [i \in DOMAIN @ |-> Shape(@[i].materialId + offset)]]

\* bmf::BinaryMesh::offsetMaterial: the material attribute of every vertex,
\* nothing without that attribute
BillboardOffsetMaterial(blob, offset) ==
    IF AttrMaterial \notin blob.attributes THEN blob
    ELSE LET stride == getAttributeElementStride(blob.attributes)
             at == getAttributeElementOffset(blob.attributes)
         IN  [blob EXCEPT !.vertices =
                [k \in DOMAIN @ |->
                    IF (k - 1) % stride = at THEN asFloat(asInt(@[k]) + offset)
                    ELSE @[k]]]

\* offsetMaterials without its Billboard branch
offsetMaterials_TrianglesOnly(meshes, offset) ==
    IF offset = 0 THEN meshes
    ELSE [i \in DOMAIN meshes |->
            IF meshes[i].type = Triangle
            THEN [meshes[i] EXCEPT !.triangle = TriangleOffsetMaterial(@, offset)]
            ELSE meshes[i]]

\* lines 129-140: the meshes after the call
offsetMaterials(meshes, offset) ==
    IF offset = 0 THEN meshes
    ELSE [i \in DOMAIN meshes |->
            IF meshes[i].type = Billboard
            THEN [meshes[i] EXCEPT !.billboard = BillboardOffsetMaterial(@, offset)]
            ELSE [meshes[i] EXCEPT !.triangle = TriangleOffsetMaterial(@, offset)]]

\* ------------------------------------------------------------------------
\* Documents handed to the SceneFormat constructor
\* ------------------------------------------------------------------------
Material(id) == [name |-> id]
Materials(n) == [i \in 1..n |-> Material(i - 1)]

Light(path) == [path |-> path]
Camera(positionPath, lookAtPath) ==
    [positionPath |-> positionPath, lookAtPath |-> lookAtPath]

\* Kinds of mesh: a triangle mesh, a billboard mesh with the Material
\* attribute, a billboard mesh without it
MeshKinds == {"triangle", "billboard", "plain"}

RECURSIVE SumTo(_, _)
SumTo(counts, i) == IF i = 0 THEN 0 ELSE counts[i] + SumTo(counts, i - 1)

\* Mesh i of a document: kinds[i] says which mesh, counts[i] how many material
\* references it has; the references of all meshes are laid out in ids
MakeMesh(kinds, counts, ids, i) ==
    LET first == SumTo(counts, i - 1)
        mine == [j \in 1..counts[i] |-> ids[first + j]]
    IN  IF kinds[i] = "triangle" THEN TriangleMesh(TriangleBlob(mine, TRUE))
        ELSE IF kinds[i] = "billboard" THEN BillboardMesh(BillboardBlob(mine, TRUE))
        ELSE BillboardMesh(PlainBillboardBlob(TRUE))

MakeMeshes(kinds, counts, ids) ==
    [i \in 1..Len(kinds) |-> MakeMesh(kinds, counts, ids, i)]

\* Paths attached to meshes, lights and the camera
A == <<1, 0, 0>>
TestPaths ==
    <<Path(<<PathSection(1, A)>>, 1),
      Path(<<PathSection(-1, A)>>, 1),
      Path(<<PathSection(2, A), PathSection(0, Origin)>>, 2)>>

Doc(materials, meshes, lights, camera) ==
    [materials |-> materials, meshes |-> meshes, lights |-> lights, camera |-> camera]

\* The mesh's own verify() fails
InvalidBlob(m) ==
    IF m.type = Triangle THEN [m EXCEPT !.triangle.valid = FALSE]
    ELSE [m EXCEPT !.billboard.valid = FALSE]

\* One more thing for verify to look at: an animated mesh, light or camera,
\* or a mesh whose own check fails
Variant(slot, i, p) == [slot |-> slot, i |-> i, p |-> p]
NoVariant == Variant("none", 0, 0)
VariantsFor(k, l) ==
         {NoVariant}
    \cup {Variant("blob", i, 0) : i \in 1..k}
    \cup {Variant(slot, i, p) : slot \in {"position", "lookAt"}, i \in 1..k,
                                p \in DOMAIN TestPaths}
    \cup {Variant("light", i, p) : i \in 1..l, p \in DOMAIN TestPaths}
    \cup {Variant(slot, 0, p) : slot \in {"positionPath", "lookAtPath"},
                                p \in DOMAIN TestPaths}

ApplyVariant(d, v) ==
    IF v.slot = "blob" THEN [d EXCEPT !.meshes[v.i] = InvalidBlob(@)]
    ELSE IF v.slot = "position" THEN [d EXCEPT !.meshes[v.i].position = TestPaths[v.p]]
    ELSE IF v.slot = "lookAt" THEN [d EXCEPT !.meshes[v.i].lookAt = TestPaths[v.p]]
    ELSE IF v.slot = "light" THEN [d EXCEPT !.lights[v.i].path = TestPaths[v.p]]
    ELSE IF v.slot = "positionPath" THEN [d EXCEPT !.camera.positionPath = TestPaths[v.p]]
    ELSE IF v.slot = "lookAtPath" THEN [d EXCEPT !.camera.lookAtPath = TestPaths[v.p]]
    ELSE d

\* The documents: n materials, the meshes of kinds/counts/ids with at most
\* MaxRefs material references in 0..n (n itself is past the end), l lights.
\* A document with lights or a variant has one material and at most one
\* reference, as in the VerifyFail test.
IsDocShape(n, l, kinds, counts, v) ==
    /\ SumTo(counts, Len(counts)) <= MaxRefs
    /\ \A i \in DOMAIN kinds : kinds[i] = "plain" => counts[i] = 0
    /\ (l > 0 \/ v # NoVariant) => (n = 1 /\ SumTo(counts, Len(counts)) <= 1)

MakeDoc(n, l, kinds, counts, ids, v) ==
    ApplyVariant(Doc(Materials(n), MakeMeshes(kinds, counts, ids),
                     [i \in 1..l |-> Light(DefaultPath)],
                     Camera(DefaultPath, DefaultPath)), v)

\* SceneFormat::SceneFormat(meshes, cam, lights, materials, env)
Construct(d) ==
    /\ m_materials = d.materials
    /\ m_meshes = d.meshes
    /\ m_lights = d.lights
    /\ m_camera = d.camera
    /\ op = "none"
    /\ result = Ok
    /\ pre = [materials |-> d.materials, meshes |-> d.meshes]

Init ==
    \E n \in 0..MaxMaterials, l \in 0..MaxLights, k \in 0..MaxMeshes :
        \E kinds \in [1..k -> MeshKinds], counts \in [1..k -> 0..MaxRefs],
           v \in VariantsFor(k, l) :
            /\ IsDocShape(n, l, kinds, counts, v)
            /\ \E ids \in [1..SumTo(counts, k) -> 0..n] :
                    Construct(MakeDoc(n, l, kinds, counts, ids, v))
    /\ m_path = DefaultPath
    /\ pathOp = "none"
    /\ sample = NoSample
    /\ CodecIdle
    /\ FilesIdle

Next == RemoveUnusedMaterials \/ Verify

Spec == Init /\ [][Next]_vars

\* ------------------------------------------------------------------------
\* Material palettes being concatenated: documents whose references are
\* shifted
\* ------------------------------------------------------------------------
MaxOffset == 2

InitOffset ==
    \E n \in 0..MaxMaterials, l \in 0..MaxLights, k \in 0..MaxMeshes :
        \E kinds \in [1..k -> MeshKinds], counts \in [1..k -> 0..MaxRefs] :
            /\ IsDocShape(n, l, kinds, counts, NoVariant)
            /\ \E ids \in [1..SumTo(counts, k) -> 0..n] :
                    Construct(MakeDoc(n, l, kinds, counts, ids, NoVariant))
    /\ m_path = DefaultPath
    /\ pathOp = "none"
    /\ sample = NoSample
    /\ CodecIdle
    /\ FilesIdle

\* offsetMaterials(offset); the references are followed up to
\* MaxMaterials + MaxOffset
OffsetMaterials ==
    /\ \E offset \in 0..MaxOffset :
        /\ \A i \in 1..Len(m_meshes) :
             \A j \in DOMAIN MeshMaterialIds(m_meshes[i]) :
                MeshMaterialIds(m_meshes[i])[j] + offset <= MaxMaterials + MaxOffset
        /\ m_meshes' = offsetMaterials(m_meshes, offset)
        /\ pre' = [materials |-> m_materials, meshes |-> m_meshes, offset |-> offset]
    /\ op' = "offsetMaterials"
    /\ result' = Ok
    /\ UNCHANGED <<m_materials, m_lights, m_camera>>
    /\ UNCHANGED <<pathVars, codecVars, fileVars>>

NextOffset == OffsetMaterials

SpecOffset == InitOffset /\ [][NextOffset]_vars

\* C22: offsetMaterials(delta) adds delta to every material reference of
\* every mesh and changes nothing else of a mesh; the material array, the
\* camera, the lights and the environment stay; offsetMaterials(0) changes
\* nothing and raises no error.
C22_OffsetMaterials ==
    /\ [](op = "offsetMaterials" =>
            /\ result = Ok
            /\ m_materials = pre.materials
            /\ Len(m_meshes) = Len(pre.meshes)
            /\ \A i \in 1..Len(m_meshes) :
                /\ MeshMaterialIds(m_meshes[i]) =
                     [j \in DOMAIN MeshMaterialIds(pre.meshes[i]) |->
                        MeshMaterialIds(pre.meshes[i])[j] + pre.offset]
                /\ m_meshes[i].type = pre.meshes[i].type
                /\ m_meshes[i].position = pre.meshes[i].position
                /\ m_meshes[i].lookAt = pre.meshes[i].lookAt
                /\ m_meshes[i].billboard.attributes = pre.meshes[i].billboard.attributes
                /\ Len(m_meshes[i].billboard.vertices) = Len(pre.meshes[i].billboard.vertices)
            /\ pre.offset = 0 => m_meshes = pre.meshes)
    /\ [][op' = "offsetMaterials" =>
            UNCHANGED <<m_materials, m_lights, m_camera, m_environment>>]_vars

C22_Witness ==
    /\ op = "offsetMaterials"
    /\ pre.offset = 2
    /\ Len(m_materials) = 2
    /\ Len(m_meshes) = 2
    /\ m_meshes[1].type = Triangle
    /\ m_meshes[2].type = Billboard
    /\ MeshMaterialIds(pre.meshes[1]) = <<1>>
    /\ MeshMaterialIds(pre.meshes[2]) = <<0>>
    /\ MeshMaterialIds(m_meshes[1]) = <<3>>
    /\ MeshMaterialIds(m_meshes[2]) = <<2>>

\* ------------------------------------------------------------------------
\* Properties of removeUnusedMaterials
\* ------------------------------------------------------------------------
Removed == op = "removeUnusedMaterials"

\* the references of the meshes: <<mesh, position in the mesh>>
RefsOf(meshes) ==
    UNION {{<<i, k>> : k \in DOMAIN MeshMaterialIds(meshes[i])} : i \in 1..Len(meshes)}

RefId(meshes, r) == MeshMaterialIds(meshes[r[1]])[r[2]]

IsReferenced(materials, meshes, mat) ==
    \E r \in RefsOf(meshes) :
        /\ RefId(meshes, r) < Len(materials)
        /\ materials[RefId(meshes, r) + 1] = mat

PreInBounds == InBounds(pre.materials, pre.meshes)
PreAllUsed ==
    \A i \in 1..Len(pre.materials) :
        IsReferenced(pre.materials, pre.meshes, pre.materials[i])

\* the floats of a billboard that do not hold a material index
OtherFloats(m) ==
    LET stride == getAttributeElementStride(m.billboard.attributes)
        offset == getAttributeElementOffset(m.billboard.attributes)
    IN  {k \in 1..Len(m.billboard.vertices) :
            ~(AttrMaterial \in m.billboard.attributes) \/ (k - 1) % stride # offset}

\* C1: with all references in bounds and at least one material unreferenced,
\* the material array after removeUnusedMaterials is the subsequence of the
\* original array made of the referenced materials, in the original order.
IsRefdBefore(mat) == IsReferenced(pre.materials, pre.meshes, mat)
C1_StableCompaction ==
    (Removed /\ PreInBounds /\ ~PreAllUsed)
        => /\ result = Ok
           /\ m_materials = SelectSeq(pre.materials, IsRefdBefore)

C1_Witness ==
    /\ Removed /\ PreInBounds
    /\ Len(pre.materials) = 3
    /\ m_materials = <<Material(0), Material(2)>>
    /\ \E i, j \in 1..Len(m_meshes) :
        /\ m_meshes[i].type = Triangle /\ MeshMaterialIds(m_meshes[i]) # <<>>
        /\ m_meshes[j].type = Billboard /\ MeshMaterialIds(m_meshes[j]) # <<>>

\* C2: after removeUnusedMaterials every triangle shape and every billboard
\* vertex with a material attribute refers to the material it referred to
\* before; the other floats of a vertex buffer and the billboards without the
\* Material attribute are as before.
C2_ReferencesPreserved ==
    (Removed /\ result = Ok) =>
        /\ Len(m_meshes) = Len(pre.meshes)
        /\ RefsOf(m_meshes) = RefsOf(pre.meshes)
        /\ \A r \in RefsOf(pre.meshes) :
              RefId(pre.meshes, r) < Len(pre.materials)
                => /\ RefId(m_meshes, r) < Len(m_materials)
                   /\ m_materials[RefId(m_meshes, r) + 1]
                        = pre.materials[RefId(pre.meshes, r) + 1]
        /\ \A i \in 1..Len(m_meshes) :
              /\ m_meshes[i].type = pre.meshes[i].type
              /\ m_meshes[i].type = Billboard =>
                    /\ Len(m_meshes[i].billboard.vertices)
                         = Len(pre.meshes[i].billboard.vertices)
                    /\ \A k \in OtherFloats(pre.meshes[i]) :
                          m_meshes[i].billboard.vertices[k]
                            = pre.meshes[i].billboard.vertices[k]

C2_Witness ==
    /\ Removed /\ result = Ok
    /\ Len(m_materials) < Len(pre.materials)
    /\ \E i \in 1..Len(m_meshes) :
        /\ m_meshes[i].type = Billboard
        /\ \E k \in DOMAIN MeshMaterialIds(m_meshes[i]) :
              MeshMaterialIds(m_meshes[i])[k] # MeshMaterialIds(pre.meshes[i])[k]
    /\ \E i \in 1..Len(m_meshes) :
        /\ m_meshes[i].type = Triangle
        /\ m_meshes[i].triangle.shapes # <<>>

\* C3: with all references in bounds, a second removeUnusedMaterials right
\* after the first changes neither the materials nor any mesh.
C3_Idempotent ==
    [][(Removed /\ PreInBounds /\ op' = "removeUnusedMaterials")
          => (m_materials' = m_materials /\ m_meshes' = m_meshes /\ result' = Ok)]_vars

\* a compacted array (mat1 is gone) seen again by a second call
C3_Witness ==
    /\ Removed /\ result = Ok
    /\ m_materials = <<Material(0), Material(2)>>
    /\ pre = Snapshot

\* C4: when every material is referenced (also when there is no material),
\* removeUnusedMaterials leaves materials, shapes and vertex buffers as they are.
C4_NoOpWhenAllUsed ==
    (Removed /\ PreAllUsed) => (m_materials = pre.materials /\ m_meshes = pre.meshes)

C4_Witness ==
    /\ Removed /\ PreAllUsed /\ result = Ok
    /\ Len(pre.materials) = 2
    /\ \E i, j \in 1..Len(m_meshes) :
        /\ m_meshes[i].type = Triangle /\ MeshMaterialIds(m_meshes[i]) # <<>>
        /\ m_meshes[j].type = Billboard /\ MeshMaterialIds(m_meshes[j]) # <<>>

\* C5 (as claimed): for every document, also with references past the end of
\* the material array, removeUnusedMaterials ends either with the materials
\* compacted and every reference rewritten through the remap table, or with
\* materials and references as before.
C5_Atomic ==
    Removed =>
        \/ (m_materials = pre.materials /\ m_meshes = pre.meshes)
        \/ LET table == MaterialLookup(IsUsed(pre.materials, pre.meshes))
           IN  /\ m_materials = SelectSeq(pre.materials, IsRefdBefore)
               /\ RefsOf(m_meshes) = RefsOf(pre.meshes)
               /\ \A r \in RefsOf(pre.meshes) :
                     /\ RefId(pre.meshes, r) \in DOMAIN table
                     /\ RefId(m_meshes, r) = table[RefId(pre.meshes, r)]

\* ------------------------------------------------------------------------
\* Properties of verify
\* ------------------------------------------------------------------------
Verified == op = "verify"

AttachedPaths ==
         {m_meshes[i].position : i \in 1..Len(m_meshes)}
    \cup {m_meshes[i].lookAt : i \in 1..Len(m_meshes)}
    \cup {m_lights[i].path : i \in 1..Len(m_lights)}
    \cup {m_camera.positionPath, m_camera.lookAtPath}

HasBadSection(p) == \E i \in 1..Len(p.m_sections) : p.m_sections[i].time <= 0

MeshChecksPass ==
    \A i \in 1..Len(m_meshes) :
        IF m_meshes[i].type = Triangle THEN m_meshes[i].triangle.valid
        ELSE m_meshes[i].billboard.valid

OutOfBoundRefs ==
    {r \in RefsOf(m_meshes) : RefId(m_meshes, r) >= Len(m_materials)}

\* the meshes with every reference equal to materials.size() lowered by one
LoweredMeshes ==
    LET size == Len(m_materials)
        lower == [id \in 0..size |-> IF id = size THEN size - 1 ELSE id]
    IN  [i \in 1..Len(m_meshes) |->
            RemapMesh(m_meshes[i], lower, 0, Len(MeshMaterialIds(m_meshes[i])))]

\* C6: verify fails whenever a shape's or a billboard vertex's material index
\* is >= materials.size(); it succeeds when all indices are below it, all
\* attached paths have positive section times and the meshes pass their own
\* check; a document failing for a single index equal to materials.size()
\* passes once that index is lowered by one.
C6_MaterialBounds ==
    Verified =>
        /\ OutOfBoundRefs # {} => result # Ok
        /\ (/\ OutOfBoundRefs = {}
            /\ \A p \in AttachedPaths : ~HasBadSection(p)
            /\ MeshChecksPass) => result = Ok
        /\ (/\ Cardinality(OutOfBoundRefs) = 1
            /\ \A r \in OutOfBoundRefs : RefId(m_meshes, r) = Len(m_materials)
            /\ Len(m_materials) > 0
            /\ \A p \in AttachedPaths : ~HasBadSection(p)
            /\ MeshChecksPass)
                => /\ result = MaterialError(Len(m_materials))
                   /\ verify(m_materials, LoweredMeshes, m_lights, m_camera) = Ok

\* the VerifyFail test: one material, shapes 0 and 1
C6_Witness ==
    /\ Verified
    /\ result = MaterialError(1)
    /\ Len(m_materials) = 1
    /\ \E i \in 1..Len(m_meshes) :
        /\ m_meshes[i].type = Triangle
        /\ MeshMaterialIds(m_meshes[i]) = <<0, 1>>

\* the mesh holding the first out-of-bound reference
FirstBadMesh == FirstOutOfBoundMesh(m_materials, m_meshes)

MeshPathsOk(m) == ~HasBadSection(m.position) /\ ~HasBadSection(m.lookAt)
MeshCheckOk(m) == IF m.type = Triangle THEN m.triangle.valid ELSE m.billboard.valid

\* C7 (as claimed): in a document with several meshes, an out-of-bound
\* material index and a path with a section time <= 0, the violation verify
\* reports is the material index, and the document is unchanged.
C7_MaterialsBeforePaths ==
    (/\ Verified
     /\ Len(m_meshes) >= 2
     /\ OutOfBoundRefs # {}
     /\ \E p \in AttachedPaths : HasBadSection(p))
        => /\ result.what = "material id out of bound"
           /\ m_materials = pre.materials /\ m_meshes = pre.meshes

\* C7 (amended): verify goes through the meshes in order and checks for each
\* the mesh itself, then its material indices, then its two paths; the paths
\* of lights and camera come after all meshes. With an out-of-bound index and
\* a bad path in the document, the material index is reported exactly when
\* no mesh before the first one holding such an index has a bad path and no
\* mesh up to and including it fails its own check; the document is unchanged
\* either way.
C7_MeshOrder ==
    (/\ Verified
     /\ OutOfBoundRefs # {}
     /\ \E p \in AttachedPaths : HasBadSection(p))
        => /\ result # Ok
           /\ result.what = "material id out of bound"
                <=> /\ \A j \in 1..(FirstBadMesh - 1) :
                          MeshPathsOk(m_meshes[j]) /\ MeshCheckOk(m_meshes[j])
                    /\ MeshCheckOk(m_meshes[FirstBadMesh])
           /\ m_materials = pre.materials /\ m_meshes = pre.meshes

\* index and bad path on the same mesh, after a mesh without either
C7_Witness ==
    /\ Verified
    /\ Len(m_meshes) >= 2
    /\ OutOfBoundRefs # {}
    /\ FirstBadMesh = 2
    /\ HasBadSection(m_meshes[2].position)
    /\ result.what = "material id out of bound"

\* C8: Path::verify fails exactly for the paths with a section time <= 0,
\* and verify fails when a path of a mesh, a light or the camera is one.
C8_PathTimes ==
    Verified =>
        /\ \A p \in AttachedPaths : PathVerify(p) <=> ~HasBadSection(p)
        /\ (\E p \in AttachedPaths : HasBadSection(p)) => result # Ok
        /\ result = PathError => \E p \in AttachedPaths : HasBadSection(p)

\* a second section with time 0 on the camera
C8_Witness ==
    /\ Verified
    /\ result = PathError
    /\ Len(m_camera.lookAtPath.m_sections) = 2
    /\ m_camera.lookAtPath.m_sections[2].time = 0

\* ------------------------------------------------------------------------
\* removeUnusedMaterials on a valid document
\* ------------------------------------------------------------------------
PreVerified == verify(pre.materials, pre.meshes, m_lights, m_camera) = Ok

\* C28: when a document that passes verify has its unused materials
\* removed, it still passes verify, every material that is left is referenced
\* by a mesh, and without any reference no material is left.
C28_RemovalKeepsValid ==
    (Removed /\ PreVerified)
        => /\ result = Ok
           /\ verify(m_materials, m_meshes, m_lights, m_camera) = Ok
           /\ InBounds(m_materials, m_meshes)
           /\ \A i \in 1..Len(m_materials) :
                IsReferenced(m_materials, m_meshes, m_materials[i])
           /\ RefsOf(pre.meshes) = {} => m_materials = <<>>

C28_Witness ==
    /\ Removed
    /\ PreVerified
    /\ Len(pre.materials) = 3
    /\ Len(m_materials) = 2
    /\ Len(m_meshes) = 2
    /\ m_meshes[1].type = Billboard
    /\ m_meshes[2].type = Triangle
    /\ MeshMaterialIds(pre.meshes[1]) = <<2>>
    /\ MeshMaterialIds(m_meshes[1]) = <<1>>
    /\ MeshMaterialIds(m_meshes[2]) = <<0>>

\* ------------------------------------------------------------------------
\* A path being evaluated
\* ------------------------------------------------------------------------
B == <<0, 2, -1>>
SectionTimes == {0, 1, 2}
SectionPositions == {Origin, A, B}
Scales == {1, 2}
Sections == {PathSection(t, pos) : t \in SectionTimes, pos \in SectionPositions}

EmptyDoc == Doc(<<>>, <<>>, <<>>, Camera(DefaultPath, DefaultPath))

InitPath ==
    /\ Construct(EmptyDoc)
    /\ \E k \in 0..MaxSections :
        \E section \in [1..k -> Sections], scale \in Scales :
            m_path = Path(section, scale)
    /\ pathOp = "none"
    /\ sample = NoSample
    /\ CodecIdle
    /\ FilesIdle

\* the frame times: a few short ones and one long pause
BigDt == 4 * TwoPow24
FrameTimes == (0..MaxDt) \cup {BigDt}

\* the elapsed time is followed up to MaxElapsed, and again from LongTime
\* on, where a short frame is rounded away
MaxElapsed == MaxDt + 2
LongTime == 2 * TwoPow24
Followed(p) == IF p.m_time <= MaxElapsed THEN TRUE ELSE p.m_time >= LongTime

\* samples are exact fractions of small numbers: a path is sampled on the
\* sections shorter than 2^24
Sampleable(p) ==
    IF p.m_sections = <<>> THEN TRUE
    ELSE p.m_sections[p.m_curSection + 1].time < TwoPow24

\* m_path.update(dt); a call whose loop never ends leaves pathOp = "hang"
Update ==
    /\ pathOp # "hang"
    /\ Followed(m_path)
    /\ \E dt \in FrameTimes :
        LET r == update(m_path, dt)
        IN  /\ m_path' = r.path
            /\ pathOp' = IF r.ends THEN "update" ELSE "hang"
    /\ sample' = NoSample
    /\ UNCHANGED <<docVars, codecVars, fileVars>>

\* m_path.getPosition()
GetPosition ==
    /\ pathOp # "hang"
    /\ Sampleable(m_path)
    /\ sample' = getPosition(m_path)
    /\ pathOp' = "getPosition"
    /\ UNCHANGED m_path
    /\ UNCHANGED <<docVars, codecVars, fileVars>>

\* m_path.getLookAt()
GetLookAt ==
    /\ pathOp # "hang"
    /\ Sampleable(m_path)
    /\ sample' = getLookAt(m_path)
    /\ pathOp' = "getLookAt"
    /\ UNCHANGED m_path
    /\ UNCHANGED <<docVars, codecVars, fileVars>>

NextPath == Update \/ GetPosition \/ GetLookAt

SpecPath == InitPath /\ [][NextPath]_vars

\* paths with sections that take long: a frame can be short against the
\* elapsed time
LongSections == {PathSection(t, A) : t \in {1, 2, LongTime}}

InitLongPath ==
    /\ Construct(EmptyDoc)
    /\ \E k \in 1..MaxSections :
        \E section \in [1..k -> LongSections], scale \in Scales :
            m_path = Path(section, scale)
    /\ pathOp = "none"
    /\ sample = NoSample
    /\ CodecIdle
    /\ FilesIdle

SpecLongPath == InitLongPath /\ [][NextPath]_vars

\* ------------------------------------------------------------------------
\* Properties of the path evaluator
\* ------------------------------------------------------------------------
Sampled == pathOp = "getPosition"

\* C9 (as claimed): a valid path with one section, sampled when the elapsed
\* time equals the section's time, is at section.position * scale.
C9_SingleSectionEnd ==
    (/\ Sampled
     /\ Len(m_path.m_sections) = 1
     /\ PathVerify(m_path)
     /\ m_path.m_time = m_path.m_sections[1].time)
        => sample = Frac(VecScale(m_path.m_sections[1].position, m_path.m_scale), 1)

\* C10: a valid open path with at least two sections that has not advanced
\* is at the origin, whatever its scale and its sections' positions.
C10_OpenPathStartsAtOrigin ==
    (/\ Sampled
     /\ Len(m_path.m_sections) >= 2
     /\ PathVerify(m_path)
     /\ ~m_path.m_isCircle
     /\ m_path.m_curSection = 0
     /\ m_path.m_time = 0)
        => sample = Frac(Origin, 1)

C10_Witness ==
    /\ Sampled
    /\ Len(m_path.m_sections) = 3
    /\ PathVerify(m_path)
    /\ ~m_path.m_isCircle
    /\ m_path.m_scale = 2
    /\ m_path.m_sections[1].position = B
    /\ m_path.m_sections[2].position = Origin
    /\ m_path.m_curSection = 0
    /\ m_path.m_time = 0
    /\ sample = Frac(Origin, 1)

\* ------------------------------------------------------------------------
\* The cursor of the path evaluator
\* ------------------------------------------------------------------------
Returned_update == pathOp # "hang"
CurSection == m_path.m_sections[m_path.m_curSection + 1]
Keyframe(i) == Frac(VecScale(m_path.m_sections[i + 1].position, m_path.m_scale), 1)

\* C24: on a non-empty path whose section times are all positive, whenever
\* update has returned the cursor is below the section count and the local
\* time lies between 0 and the time of the current section, so the Bezier
\* parameter m_time / time is in [0, 1].
C24_CursorInvariant ==
    (/\ m_path.m_sections # <<>>
     /\ PathVerify(m_path)
     /\ Returned_update)
        => /\ m_path.m_curSection < Len(m_path.m_sections)
           /\ 0 <= m_path.m_time
           /\ m_path.m_time <= CurSection.time
           /\ CurSection.time > 0

C24_Witness ==
    /\ pathOp = "update"
    /\ Len(m_path.m_sections) = 3
    /\ PathVerify(m_path)
    /\ m_path.m_sections[1].time # m_path.m_sections[3].time
    /\ m_path.m_curSection = 2
    /\ m_path.m_time = CurSection.time

\* C25 (as claimed): on a valid path with at least two sections, open or
\* closed, the position sampled when the local time equals the time of
\* section k is section k's position * scale; sampled at local time 0 it is
\* section k-1's position * scale, and the origin on section 0.
C25_PassesThroughKeyframes ==
    (/\ Sampled
     /\ Len(m_path.m_sections) >= 2
     /\ PathVerify(m_path))
        => /\ m_path.m_time = CurSection.time => sample = Keyframe(m_path.m_curSection)
           /\ m_path.m_time = 0 =>
                sample = IF m_path.m_curSection > 0
                         THEN Keyframe(m_path.m_curSection - 1)
                         ELSE Frac(Origin, 1)

\* C26: on a valid path with n >= 2 sections, open or closed, the lookAt
\* sampled at local time 0 on section k is section ((k-1) mod n)'s position
\* * scale, and sampled when the local time equals the time of section k it
\* is section k's position * scale.
C26_LookAtCircular ==
    (/\ pathOp = "getLookAt"
     /\ Len(m_path.m_sections) >= 2
     /\ PathVerify(m_path))
        => /\ m_path.m_time = 0 =>
                sample = Keyframe((m_path.m_curSection - 1) % Len(m_path.m_sections))
           /\ m_path.m_time = CurSection.time => sample = Keyframe(m_path.m_curSection)

C26_Witness ==
    /\ pathOp = "getLookAt"
    /\ Len(m_path.m_sections) = 3
    /\ PathVerify(m_path)
    /\ ~m_path.m_isCircle
    /\ m_path.m_scale = 2
    /\ m_path.m_curSection = 0
    /\ m_path.m_time = 0
    /\ m_path.m_sections[3].position = B
    /\ sample = Frac(VecScale(B, 2), 1)

\* C29 (as claimed): on a path that passes verify the loop of update ends,
\* whatever the frame time; on an empty path update accumulates no time.
C29_UpdateTerminates ==
    /\ PathVerify(m_path) => Returned_update
    /\ m_path.m_sections = <<>> => m_path.m_time = 0

\* ------------------------------------------------------------------------
\* Frames
\* ------------------------------------------------------------------------
ShortFrames == 0..MaxDt

\* update(a) then update(b) against update(a + b), when all three return
SplitAgrees(p, a, b) ==
    LET whole == update(p, FloatAdd(a, b))
        first == update(p, a)
        second == update(first.path, b)
    IN  (whole.ends /\ first.ends /\ second.ends) => second.path = whole.path

\* C30 (as claimed): on a valid non-empty path, update(a) followed by
\* update(b) leaves the cursor and the local time update(a + b) leaves.
C30_Additive ==
    (/\ m_path.m_sections # <<>>
     /\ PathVerify(m_path)
     /\ Returned_update)
        => \A a \in ShortFrames, b \in ShortFrames : SplitAgrees(m_path, a, b)

\* C30 (amended): the same, for the frames whose sums with the elapsed time
\* are floats (below 2^24 here), so that no addition is rounded.
C30_AdditiveWhenExact ==
    (/\ m_path.m_sections # <<>>
     /\ PathVerify(m_path)
     /\ Returned_update)
        => \A a \in ShortFrames, b \in ShortFrames :
                m_path.m_time + a + b < TwoPow24 => SplitAgrees(m_path, a, b)

C30_Witness ==
    /\ pathOp = "update"
    /\ Len(m_path.m_sections) = 3
    /\ PathVerify(m_path)
    /\ m_path.m_curSection = 1
    /\ m_path.m_time = 1
    /\ CurSection.time = 2
    /\ update(m_path, 1).path.m_curSection = 1
    /\ update(update(m_path, 1).path, 2).path.m_curSection # 1
    /\ update(update(m_path, 1).path, 2).path = update(m_path, 3).path

\* ------------------------------------------------------------------------
\* The json tree (nlohmann::json, an external library)
\* ------------------------------------------------------------------------

\* In the codec a float is carried as the integer 100 times its value, so
\* that the defaults 0.01f and 0.1f are integers; One is 1.0f.
One == 100

JsonNull == [type |-> "null"]
JsonNumber(x) == [type |-> "number", value |-> x]
JsonBoolean(b) == [type |-> "boolean", value |-> b]
JsonString(s) == [type |-> "string", value |-> s]
JsonArray(elements) == [type |-> "array", value |-> elements]
JsonObject(fields) == [type |-> "object", value |-> fields]

\* An object is built field by field: j["name"] = v, or nothing at all
NoFields == [name \in {} |-> JsonNull]
Field(name, v) == name :> v
FieldIf(condition, name, v) == IF condition THEN name :> v ELSE NoFields

\* j.find(name) != j.end()
Has(j, name) == j.type = "object" /\ name \in DOMAIN j.value

\* j[name], for a name that may be missing: the null value
At(j, name) == IF Has(j, name) THEN j.value[name] ELSE JsonNull

\* What a call returns, or the exception it throws, and the files it
\* opened on the way, in the order of opening
Returned(v) == [ok |-> TRUE, val |-> v, opened |-> <<>>]
ThrownAbout(what, about) ==
    [ok |-> FALSE, what |-> what, about |-> about, opened |-> <<>>]
Thrown(what) == ThrownAbout(what, Nothing)
TypeError == Thrown("type_error")

\* The calls of a function body in their order: they all return, or the
\* first one that throws ends the body
AllReturned(calls) == \A i \in 1..Len(calls) : calls[i].ok

FirstThrown(calls) ==
    CHOOSE i \in 1..Len(calls) :
        ~calls[i].ok /\ \A k \in 1..(i - 1) : calls[k].ok

RECURSIVE OpenedUpTo(_, _)
OpenedUpTo(calls, n) ==
    IF n = 0 THEN <<>> ELSE OpenedUpTo(calls, n - 1) \o calls[n].opened

ReturnedAfter(calls, v) ==
    [ok |-> TRUE, val |-> v, opened |-> OpenedUpTo(calls, Len(calls))]

ThrownBy(calls) ==
    [ok |-> FALSE, what |-> calls[FirstThrown(calls)].what,
     about |-> calls[FirstThrown(calls)].about,
     opened |-> OpenedUpTo(calls, FirstThrown(calls))]

\* A function body as the calls it makes in their order: when all of them
\* returned, the value built from what they returned; otherwise what the
\* first failing call threw
Body(calls, Value(_)) ==
    CHOOSE r \in {IF AllReturned(c)
                  THEN ReturnedAfter(c, Value([i \in 1..Len(c) |-> c[i].val]))
                  ELSE ThrownBy(c) : c \in {calls}} : TRUE

\* j.get<float>(): numbers and booleans convert, everything else throws
GetFloat(j) ==
    IF j.type = "number" THEN Returned(j.value)
    ELSE IF j.type = "boolean" THEN Returned(IF j.value THEN One ELSE 0)
    ELSE TypeError

\* j.get<bool>(): only a boolean converts
GetBool(j) == IF j.type = "boolean" THEN Returned(j.value) ELSE TypeError

\* j.get<std::string>(): only a string converts
GetString(j) == IF j.type = "string" THEN Returned(j.value) ELSE TypeError

\* ------------------------------------------------------------------------
\* SceneFormat::writeVec3 and SceneFormat::getVec3
\* ------------------------------------------------------------------------

\* A variant of writeVec3 that collapses when the first two components agree
writeVec3_FirstTwo(vec) ==
    IF vec[1] = vec[2]
    THEN JsonNumber(vec[1])
    ELSE JsonArray(<<JsonNumber(vec[1]), JsonNumber(vec[2]), JsonNumber(vec[3])>>)

writeVec3(vec) ==
    IF vec[1] = vec[2] /\ vec[2] = vec[3]
    THEN JsonNumber(vec[1])
    ELSE JsonArray(<<JsonNumber(vec[1]), JsonNumber(vec[2]), JsonNumber(vec[3])>>)

ArityError(n) == ThrownAbout("expected array with 3 or 1 element but got", n)

\* A variant of getVec3 that pads or cuts an array of any length
getVec3_AnyArity(j) ==
    IF j.type = "array"
    THEN LET n == Len(j.value)
             c(i) == IF n = 0 THEN Returned(0)
                     ELSE GetFloat(j.value[IF i <= n THEN i ELSE n])
         IN  IF c(1).ok /\ c(2).ok /\ c(3).ok
             THEN Returned(<<c(1).val, c(2).val, c(3).val>>)
             ELSE TypeError
    ELSE LET x == GetFloat(j)
         IN  IF x.ok THEN Returned(<<x.val, x.val, x.val>>) ELSE x

getVec3(j) ==
    IF j.type = "array"
    THEN IF Len(j.value) = 1
         THEN LET x == GetFloat(j.value[1])
              IN  IF x.ok THEN Returned(<<x.val, x.val, x.val>>) ELSE x
         ELSE IF Len(j.value) = 3
         THEN LET x == GetFloat(j.value[1])
                  y == GetFloat(j.value[2])
                  z == GetFloat(j.value[3])
              IN  IF x.ok /\ y.ok /\ z.ok
                  THEN Returned(<<x.val, y.val, z.val>>)
                  ELSE TypeError
         ELSE ArityError(Len(j.value))
    ELSE LET x == GetFloat(j)
         IN  IF x.ok THEN Returned(<<x.val, x.val, x.val>>) ELSE x

\* getOrDefault<T>(j, name, defaultValue) for T = float, bool
getOrDefaultFloat(j, name, defaultValue) ==
    IF ~Has(j, name) THEN Returned(defaultValue) ELSE GetFloat(j.value[name])

getOrDefaultBool(j, name, defaultValue) ==
    IF ~Has(j, name) THEN Returned(defaultValue) ELSE GetBool(j.value[name])

\* getOrDefault<glm::vec3>(j, name, defaultValue)
getOrDefaultVec3(j, name, defaultValue) ==
    IF ~Has(j, name) THEN Returned(defaultValue) ELSE getVec3(j.value[name])

\* ------------------------------------------------------------------------
\* File names (std::filesystem::path) and the file system
\* ------------------------------------------------------------------------

\* A path is a directory (a sequence of directory names, absolute or not)
\* and a file name. The file name is a sequence of parts separated by dots,
\* each part a sequence of pieces: "test_material.json" is the name
\* << <<"test", "_material">>, <<"json">> >>.
FsPath(abs, dir, name) == [abs |-> abs, dir |-> dir, name |-> name]

\* fs::path()
EmptyPath == FsPath(FALSE, <<>>, <<>>)

\* The current working directory
Cwd == <<"work">>

empty(p) == p = EmptyPath
is_absolute(p) == p.abs
is_relative(p) == ~p.abs

\* fs::absolute(p)
absolute(p) == IF p.abs THEN p ELSE FsPath(TRUE, Cwd \o p.dir, p.name)

\* p.parent_path() and p.filename()
parent_path(p) == FsPath(p.abs, p.dir, <<>>)
filename(p) == FsPath(FALSE, <<>>, p.name)

\* root / p
Slash(root, p) == IF p.abs THEN p ELSE FsPath(root.abs, root.dir \o p.dir, p.name)

\* p.replace_extension(ext): the part after the last dot is the extension
replace_extension(p, ext) ==
    FsPath(p.abs, p.dir,
           IF Len(p.name) >= 2
           THEN SubSeq(p.name, 1, Len(p.name) - 1) \o <<ext>>
           ELSE p.name \o <<ext>>)

\* p.string() + suffix, for a suffix without a dot
AppendSuffix(p, suffix) ==
    FsPath(p.abs, p.dir,
           IF p.name = <<>> THEN <<suffix>>
           ELSE [p.name EXCEPT ![Len(p.name)] = @ \o suffix])

\* p.string() + ".ext"
AppendExtension(p, ext) == FsPath(p.abs, p.dir, p.name \o <<ext>>)

\* The directory names with every "name/.." pair resolved
RECURSIVE Canonical(_)
Canonical(dir) ==
    IF \E i \in 2..Len(dir) : dir[i] = ".." /\ dir[i - 1] # ".."
    THEN LET i == CHOOSE k \in 2..Len(dir) :
                      /\ dir[k] = ".." /\ dir[k - 1] # ".."
                      /\ \A h \in 2..(k - 1) : ~(dir[h] = ".." /\ dir[h - 1] # "..")
         IN  Canonical(SubSeq(dir, 1, i - 2) \o SubSeq(dir, i + 1, Len(dir)))
    ELSE dir

\* The file a path names, whatever way it is written
FileKey(p) == LET a == absolute(p) IN FsPath(TRUE, Canonical(a.dir), a.name)

\* The length of the common prefix of two directories
RECURSIVE CommonPrefix(_, _)
CommonPrefix(d, e) ==
    IF d # <<>> /\ e # <<>> /\ Head(d) = Head(e)
    THEN 1 + CommonPrefix(Tail(d), Tail(e))
    ELSE 0

\* fs::relative(p, root)
relative(p, root) ==
    LET d == FileKey(p).dir
        r == FileKey(root).dir
        c == CommonPrefix(d, r)
    IN  FsPath(FALSE,
               [i \in 1..(Len(r) - c) |-> ".."] \o SubSeq(d, c + 1, Len(d)),
               p.name)

\* SceneFormat::getRelativePath
getRelativePath(root, p) == IF is_relative(p) THEN p ELSE relative(p, root)

\* A variant of getAbsolutePath that resolves against the working directory
getAbsolutePath_Cwd(root, p) == absolute(p)

\* SceneFormat::getAbsolutePath
getAbsolutePath(root, p) == IF is_absolute(p) THEN p ELSE Slash(root, p)

Json == <<"json">>
Bmf == <<"bmf">>

\* SceneFormat::openFile: the file that is opened, and its content
openFileName(name) == FileKey(replace_extension(name, Json))

openFile(name, fs) ==
    LET jsonName == openFileName(name)
    IN  IF jsonName \in DOMAIN fs /\ fs[jsonName].type # "bmf"
        THEN [ok |-> TRUE, val |-> fs[jsonName], opened |-> <<jsonName>>]
        ELSE ThrownAbout("could not open", jsonName)

\* SceneFormat::saveFile: the file that is written
saveFileName(name) == FileKey(replace_extension(name, Json))

\* One write to the file system
Write(name, content) == [name |-> name, content |-> content]

\* The file system after a sequence of writes
RECURSIVE AfterWrites(_, _)
AfterWrites(fs, writes) ==
    IF writes = <<>> THEN fs
    ELSE AfterWrites((Head(writes).name :> Head(writes).content) @@ fs,
                     Tail(writes))

\* ------------------------------------------------------------------------
\* Colour space (srgb.h)
\* ------------------------------------------------------------------------

\* The gamma curve between 0 and 1, at the value one half (in hundredths)
GammaEncode == (50 :> 74)
GammaDecode == (50 :> 21) @@ (74 :> 51) @@ (200 :> 495)

toSrgb(v) ==
    IF v >= One THEN One ELSE IF v <= 0 THEN 0 ELSE GammaEncode[v]

fromSrgb(v) ==
    IF v <= 0 THEN 0 ELSE IF v = One THEN One ELSE GammaDecode[v]

toSrgbVec(v) == <<toSrgb(v[1]), toSrgb(v[2]), toSrgb(v[3])>>
fromSrgbVec(v) == <<fromSrgb(v[1]), fromSrgb(v[2]), fromSrgb(v[3])>>

\* ------------------------------------------------------------------------
\* The codec of paths
\* ------------------------------------------------------------------------

\* A variant of getPathJson for which the elided scale is 0
getPathJson_ScaleElidedAtZero(path) ==
    JsonObject(
        FieldIf(path.m_scale # 0, "scale", JsonNumber(path.m_scale))
     @@ Field("sections", JsonArray(
            [i \in 1..Len(path.m_sections) |->
                JsonObject(Field("time", JsonNumber(path.m_sections[i].time))
                        @@ Field("pos", writeVec3(path.m_sections[i].position)))])))

\* SceneFormat::getPathJson
getPathJson(path) ==
    JsonObject(
        FieldIf(path.m_scale # One, "scale", JsonNumber(path.m_scale))
     @@ Field("sections", JsonArray(
            [i \in 1..Len(path.m_sections) |->
                JsonObject(Field("time", JsonNumber(path.m_sections[i].time))
                        @@ Field("pos", writeVec3(path.m_sections[i].position)))])))

\* SceneFormat::loadPathSectionJson
loadPathSectionJson(j) ==
    LET time == GetFloat(At(j, "time"))
        pos == getVec3(At(j, "pos"))
    IN  Body(<<time, pos>>, LAMBDA v : PathSection(v[1], v[2]))

\* A chain of file references that never ends exhausts the stack
StackOverflow == Thrown("stack overflow")

\* The files opened before a call are opened whatever the call does
After(file, call) == [call EXCEPT !.opened = file.opened \o @]

\* SceneFormat::loadPathJson and SceneFormat::loadPath
RECURSIVE loadPathJson(_, _, _, _)
RECURSIVE loadPath(_, _, _)
loadPathJson(j, root, fs, depth) ==
    IF j.type = "string"
    THEN loadPath(getAbsolutePath(root, j.value), fs, depth)
    ELSE LET scale == getOrDefaultFloat(j, "scale", One)
             secs == At(j, "sections")
             sections == IF ~Has(j, "sections") THEN <<>>
                         ELSE IF secs.type # "array"
                         THEN <<Thrown("sections must be an array")>>
                         ELSE [i \in 1..Len(secs.value) |->
                                  loadPathSectionJson(secs.value[i])]
         IN  Body(<<scale>> \o sections,
                  LAMBDA v : Path(Tail(v), v[1]))

loadPath(name, fs, depth) ==
    LET file == openFile(name, fs)
    IN  IF ~file.ok THEN file
        ELSE IF depth = 0 THEN After(file, StackOverflow)
        ELSE After(file, loadPathJson(file.val, parent_path(absolute(name)),
                                      fs, depth - 1))

\* The depth at which every chain of references in fs has ended or repeats
Depth(fs) == Cardinality(DOMAIN fs) + 1

\* SceneFormat::getPathOrDefault
getPathOrDefault(j, name, root, fs) ==
    IF ~Has(j, name) THEN Returned(DefaultPath)
    ELSE loadPathJson(j.value[name], root, fs, Depth(fs))

\* SceneFormat::savePath: the write it makes
savePath(name, path) == <<Write(saveFileName(name), getPathJson(path))>>

\* Path::isStatic
isStatic(path) == path.m_sections = <<>>

\* ------------------------------------------------------------------------
\* The codec of materials
\* ------------------------------------------------------------------------

\* MaterialData::Flags; the flag word is the set of the bits that are set
Transparent == "Transparent"
Volume == "Volume"
IgnoreNormals == "IgnoreNormals"
YOrientation == "YOrientation"
TextureClamp == "TextureClamp"
TextureSpherical == "TextureSpherical"
Flags == {Transparent, Volume, IgnoreNormals, YOrientation, TextureClamp,
          TextureSpherical}

\* MaterialData::Default()
MaterialDataDefault ==
    [albedo |-> <<One, One, One>>,
     coverage |-> One,
     emission |-> <<0, 0, 0>>,
     metalness |-> 0,
     roughness |-> One,
     flags |-> {},
     translucency |-> 0,
     specular |-> 10,
     ior |-> One]

\* MaterialTextures without any texture
NoTextures == [albedo |-> EmptyPath, specular |-> EmptyPath, coverage |-> EmptyPath]

\* struct Material with all its members
FullMaterial(name, textures, data) ==
    [name |-> name, textures |-> textures, data |-> data]

\* One entry of SceneFormat::getMaterialsJson
MaterialJson(m, root) ==
    LET default == MaterialDataDefault
        transparent == Transparent \in m.data.flags
        volume == Volume \in m.data.flags
        ignoreNormal == IgnoreNormals \in m.data.flags
        yorientation == YOrientation \in m.data.flags
        texclamp == TextureClamp \in m.data.flags
        texSpherical == TextureSpherical \in m.data.flags
    IN  JsonObject(
            Field("name", JsonString(m.name))
         @@ FieldIf(~empty(m.textures.albedo), "albedoTex",
                    JsonString(getRelativePath(root, m.textures.albedo)))
         @@ FieldIf(~empty(m.textures.specular), "specularTex",
                    JsonString(getRelativePath(root, m.textures.specular)))
         @@ FieldIf(~empty(m.textures.coverage), "coverageTex",
                    JsonString(getRelativePath(root, m.textures.coverage)))
         @@ FieldIf(toSrgbVec(m.data.albedo) # default.albedo, "albedo",
                    writeVec3(toSrgbVec(m.data.albedo)))
         @@ FieldIf(m.data.roughness # default.roughness, "roughness",
                    JsonNumber(m.data.roughness))
         @@ FieldIf(m.data.coverage # default.coverage, "coverage",
                    JsonNumber(m.data.coverage))
         @@ FieldIf(m.data.specular # default.specular, "specular",
                    JsonNumber(m.data.specular))
         @@ FieldIf(m.data.metalness # default.metalness, "metalness",
                    JsonNumber(m.data.metalness))
         @@ FieldIf(toSrgbVec(m.data.emission) # default.emission, "emission",
                    writeVec3(toSrgbVec(m.data.emission)))
         @@ FieldIf(toSrgb(m.data.translucency) # default.translucency,
                    "translucency", JsonNumber(m.data.translucency))
         @@ FieldIf(m.data.ior # default.ior, "ior", JsonNumber(m.data.ior))
         @@ FieldIf((Transparent \in default.flags) # transparent,
                    "transparent", JsonBoolean(transparent))
         @@ FieldIf((Volume \in default.flags) # volume,
                    "volume", JsonBoolean(volume))
         @@ FieldIf((IgnoreNormals \in default.flags) # volume,
                    "ignore-normals", JsonBoolean(ignoreNormal))
         @@ FieldIf((YOrientation \in default.flags) # yorientation,
                    "y-aligned", JsonBoolean(yorientation))
         @@ FieldIf((TextureClamp \in default.flags) # texclamp,
                    "texture-clamp", JsonBoolean(texclamp))
         @@ FieldIf((TextureSpherical \in default.flags) # texSpherical,
                    "texture-spherical", JsonBoolean(texSpherical)))

\* A variant of getMaterialsJson that writes the last material first
getMaterialsJson_Reversed(materials, root) ==
    JsonArray([i \in 1..Len(materials) |->
                  MaterialJson(materials[Len(materials) + 1 - i], root)])

\* SceneFormat::getMaterialsJson
getMaterialsJson(materials, root) ==
    JsonArray([i \in 1..Len(materials) |-> MaterialJson(materials[i], root)])

\* SceneFormat::getFilename
getFilename(j, name, root) ==
    IF ~Has(j, name) THEN Returned(EmptyPath)
    ELSE LET s == GetString(j.value[name])
         IN  IF s.ok THEN Returned(getAbsolutePath(root, s.val)) ELSE s

\* The flag a boolean field of the tree contributes
FlagOf(set, flag) == IF set THEN {flag} ELSE {}

\* SceneFormat::loadMaterialJson
loadMaterialJson(j, root) ==
    LET default == MaterialDataDefault
        name == GetString(At(j, "name"))
        albedoTex == getFilename(j, "albedoTex", root)
        specularTex == getFilename(j, "specularTex", root)
        coverageTex == getFilename(j, "coverageTex", root)
        albedo == getOrDefaultVec3(j, "albedo", default.albedo)
        roughness == getOrDefaultFloat(j, "roughness", default.roughness)
        coverage == getOrDefaultFloat(j, "coverage", default.coverage)
        specular == getOrDefaultFloat(j, "specular", default.specular)
        emission == getOrDefaultVec3(j, "emission", default.emission)
        metalness == getOrDefaultFloat(j, "metalness", 0)
        translucency == getOrDefaultFloat(j, "translucency", 0)
        ior == getOrDefaultFloat(j, "ior", One)
        transparent == getOrDefaultBool(j, "transparent", Transparent \in default.flags)
        volume == getOrDefaultBool(j, "volume", Volume \in default.flags)
        ignoreNormals == getOrDefaultBool(j, "ignore-normals", IgnoreNormals \in default.flags)
        yAligned == getOrDefaultBool(j, "y-aligned", YOrientation \in default.flags)
        textureClamp == getOrDefaultBool(j, "texture-clamp", TextureClamp \in default.flags)
        textureSpherical == getOrDefaultBool(j, "texture-spherical", TextureSpherical \in default.flags)
    IN  Body(<<name, albedoTex, specularTex, coverageTex, albedo,
               roughness, coverage, specular, emission, metalness,
               translucency, ior, transparent, volume, ignoreNormals,
               yAligned, textureClamp, textureSpherical>>,
             LAMBDA v : FullMaterial(
                 v[1],
                 [albedo |-> v[2], specular |-> v[3], coverage |-> v[4]],
                 [albedo |-> fromSrgbVec(v[5]),
                  coverage |-> v[7],
                  emission |-> fromSrgbVec(v[9]),
                  metalness |-> v[10],
                  roughness |-> v[6],
                  flags |-> FlagOf(v[13], Transparent)
                       \cup FlagOf(v[14], Volume)
                       \cup FlagOf(v[15], IgnoreNormals)
                       \cup FlagOf(v[16], YOrientation)
                       \cup FlagOf(v[17], TextureClamp)
                       \cup FlagOf(v[18], TextureSpherical),
                  translucency |-> v[11],
                  specular |-> v[8],
                  ior |-> v[12]]))

\* SceneFormat::loadMaterialsJson and SceneFormat::loadMaterials
RECURSIVE loadMaterialsJson(_, _, _, _)
RECURSIVE loadMaterials(_, _, _)
loadMaterialsJson(j, root, fs, depth) ==
    IF j.type = "string"
    THEN loadMaterials(getAbsolutePath(root, j.value), fs, depth)
    ELSE IF j.type # "array"
    THEN Thrown("materials must be an array")
    ELSE Body([i \in 1..Len(j.value) |-> loadMaterialJson(j.value[i], root)],
              LAMBDA v : v)

loadMaterials(name, fs, depth) ==
    LET file == openFile(name, fs)
    IN  IF ~file.ok THEN file
        ELSE IF depth = 0 THEN After(file, StackOverflow)
        ELSE After(file, loadMaterialsJson(file.val, parent_path(absolute(name)),
                                           fs, depth - 1))

\* ------------------------------------------------------------------------
\* The codec of lights
\* ------------------------------------------------------------------------

\* LightData::Type
Point == "Point"
Directional == "Directional"

\* The value of a member that was never written
Indeterminate == "indeterminate"

\* struct LightData: position and direction are the two names of one union
\* member, carried as position
LightData(type, position, color, radius) ==
    [type |-> type, position |-> position, color |-> color, radius |-> radius]

\* struct Light with all its members
FullLight(data, path) == [data |-> data, path |-> path]

\* One entry of SceneFormat::getLightsJson
LightJson(l) ==
    IF l.data.type \notin {Point, Directional}
    THEN Thrown("invalid light type")
    ELSE Returned(JsonObject(
            (IF l.data.type = Point
             THEN Field("position", writeVec3(l.data.position))
               @@ Field("radius", JsonNumber(l.data.radius))
             ELSE Field("direction", writeVec3(l.data.position)))
         @@ Field("type", JsonString(l.data.type))
         @@ Field("color", writeVec3(toSrgbVec(l.data.color)))
         @@ FieldIf(~isStatic(l.path), "path", getPathJson(l.path))))

\* SceneFormat::getLightsJson
getLightsJson(lights) ==
    Body([i \in 1..Len(lights) |-> LightJson(lights[i])],
         LAMBDA v : JsonArray(v))

\* SceneFormat::loadLightJson
loadLightJson(j, root, fs) ==
    LET strType == GetString(At(j, "type"))
        isPoint == strType.ok /\ strType.val = "Point"
        isDirectional == strType.ok /\ strType.val = "Directional"
        vector == IF isPoint THEN getVec3(At(j, "position"))
                  ELSE IF isDirectional THEN getVec3(At(j, "direction"))
                  ELSE Thrown("invalid light type")
        radius == IF isPoint THEN GetFloat(At(j, "radius"))
                  ELSE Returned(Indeterminate)
        color == getVec3(At(j, "color"))
        path == getPathOrDefault(j, "path", root, fs)
    IN  Body(<<strType, vector, radius, color, path>>,
             LAMBDA v : FullLight(LightData(v[1], v[2], fromSrgbVec(v[4]), v[3]),
                                  v[5]))

\* SceneFormat::loadLightsJson and SceneFormat::loadLights
RECURSIVE loadLightsJson(_, _, _, _)
RECURSIVE loadLights(_, _, _)
loadLightsJson(j, root, fs, depth) ==
    IF j.type = "string"
    THEN loadLights(getAbsolutePath(root, j.value), fs, depth)
    ELSE IF j.type # "array"
    THEN Thrown("lights must be an array")
    ELSE Body([i \in 1..Len(j.value) |-> loadLightJson(j.value[i], root, fs)],
              LAMBDA v : v)

loadLights(name, fs, depth) ==
    LET file == openFile(name, fs)
    IN  IF ~file.ok THEN file
        ELSE IF depth = 0 THEN After(file, StackOverflow)
        ELSE After(file, loadLightsJson(file.val, parent_path(absolute(name)),
                                        fs, depth - 1))

\* ------------------------------------------------------------------------
\* The codec of the camera
\* ------------------------------------------------------------------------

\* CameraData::Type
Pinhole == "Pinhole"

\* struct CameraData
CameraData(type, position, direction, fov, near, far, speed, up) ==
    [type |-> type, position |-> position, direction |-> direction,
     fov |-> fov, near |-> near, far |-> far, speed |-> speed, up |-> up]

\* CameraData::Default()
CameraDataDefault ==
    CameraData(Pinhole, <<0, 0, 0>>, <<0, 0, One>>, 157, 1, 100000 * One, One,
               <<0, One, 0>>)

\* struct Camera with all its members
FullCamera(data, positionPath, lookAtPath) ==
    [data |-> data, positionPath |-> positionPath, lookAtPath |-> lookAtPath]

\* SceneFormat::getCameraJson
getCameraJson(camera) ==
    IF camera.data.type # Pinhole
    THEN Thrown("invalid camera type")
    ELSE Returned(JsonObject(
            Field("type", JsonString("Pinhole"))
         @@ Field("position", writeVec3(camera.data.position))
         @@ Field("direction", writeVec3(camera.data.direction))
         @@ Field("fov", JsonNumber(camera.data.fov))
         @@ FieldIf(camera.data.near # CameraDataDefault.near, "near",
                    JsonNumber(camera.data.near))
         @@ FieldIf(camera.data.far # CameraDataDefault.far, "far",
                    JsonNumber(camera.data.far))
         @@ FieldIf(camera.data.up # CameraDataDefault.up, "up",
                    writeVec3(camera.data.up))
         @@ FieldIf(~isStatic(camera.positionPath), "positionPath",
                    getPathJson(camera.positionPath))
         @@ FieldIf(~isStatic(camera.lookAtPath), "lookAtPath",
                    getPathJson(camera.lookAtPath))))

\* SceneFormat::loadCameraJson and SceneFormat::loadCamera
RECURSIVE loadCameraJson(_, _, _, _)
RECURSIVE loadCamera(_, _, _)
loadCameraJson(j, root, fs, depth) ==
    IF j.type = "string"
    THEN loadCamera(getAbsolutePath(root, j.value), fs, depth)
    ELSE LET strType == GetString(At(j, "type"))
             type == IF strType.ok /\ strType.val # "Pinhole"
                     THEN Thrown("unknown camera type")
                     ELSE strType
             position == getVec3(At(j, "position"))
             direction == getVec3(At(j, "direction"))
             fov == GetFloat(At(j, "fov"))
             near == getOrDefaultFloat(j, "near", CameraDataDefault.near)
             far == getOrDefaultFloat(j, "far", CameraDataDefault.far)
             up == getOrDefaultVec3(j, "up", CameraDataDefault.up)
             speed == getOrDefaultFloat(j, "speed", One)
             positionPath == getPathOrDefault(j, "positionPath", root, fs)
             lookAtPath == getPathOrDefault(j, "lookAtPath", root, fs)
         IN  Body(<<type, position, direction, fov, near, far, up, speed,
                    positionPath, lookAtPath>>,
                  LAMBDA v : FullCamera(
                      CameraData(Pinhole, v[2], v[3], v[4], v[5], v[6], v[8], v[7]),
                      v[9], v[10]))

loadCamera(name, fs, depth) ==
    LET file == openFile(name, fs)
    IN  IF ~file.ok THEN file
        ELSE IF depth = 0 THEN After(file, StackOverflow)
        ELSE After(file, loadCameraJson(file.val, parent_path(absolute(name)),
                                        fs, depth - 1))

\* ------------------------------------------------------------------------
\* The codec of the environment
\* ------------------------------------------------------------------------

\* struct Environment
Environment(map, ambient, ambientUp, ambientDown, color) ==
    [map |-> map, ambient |-> ambient, ambientUp |-> ambientUp,
     ambientDown |-> ambientDown, color |-> color]

\* Environment::Default()
EnvironmentDefault == Environment(EmptyPath, EmptyPath, Origin, Origin, Origin)

\* SceneFormat::getEnvironmentJson
getEnvironmentJson(env, root) ==
    JsonObject(
        Field("color", writeVec3(toSrgbVec(env.color)))
     @@ FieldIf(env.ambientUp # EnvironmentDefault.ambientUp, "ambientUp",
                writeVec3(toSrgbVec(env.ambientUp)))
     @@ FieldIf(env.ambientDown # EnvironmentDefault.ambientDown, "ambientDown",
                writeVec3(toSrgbVec(env.ambientDown)))
     @@ FieldIf(~empty(env.map), "map", JsonString(getRelativePath(root, env.map)))
     @@ FieldIf(~empty(env.ambient), "ambient",
                JsonString(getRelativePath(root, env.ambient))))

\* SceneFormat::loadEnvironmentJson and SceneFormat::loadEnvironment
RECURSIVE loadEnvironmentJson(_, _, _, _)
RECURSIVE loadEnvironment(_, _, _)
loadEnvironmentJson(j, root, fs, depth) ==
    IF j.type = "string"
    THEN loadEnvironment(getAbsolutePath(root, j.value), fs, depth)
    ELSE LET color == getVec3(At(j, "color"))
             ambientUp == getOrDefaultVec3(j, "ambientUp", EnvironmentDefault.ambientUp)
             ambientDown == getOrDefaultVec3(j, "ambientDown", EnvironmentDefault.ambientDown)
             map == getFilename(j, "map", root)
             ambient == getFilename(j, "ambient", root)
         IN  Body(<<color, ambientUp, ambientDown, map, ambient>>,
                  LAMBDA v : Environment(v[4], v[5], fromSrgbVec(v[2]),
                                         fromSrgbVec(v[3]), fromSrgbVec(v[1])))

loadEnvironment(name, fs, depth) ==
    LET file == openFile(name, fs)
    IN  IF ~file.ok THEN file
        ELSE IF depth = 0 THEN After(file, StackOverflow)
        ELSE After(file, loadEnvironmentJson(file.val, parent_path(name),
                                             fs, depth - 1))

\* ------------------------------------------------------------------------
\* The codec of meshes
\* ------------------------------------------------------------------------

\* The content of a geometry file (bmf::BinaryMesh::saveToFile)
BmfFile(type, blob) == [type |-> "bmf", mesh |-> type, blob |-> blob]

\* bmf::BinaryMesh::loadFromFile
loadFromFile(name, type, fs) ==
    LET key == FileKey(name)
    IN  IF key \in DOMAIN fs /\ fs[key].type = "bmf" /\ fs[key].mesh = type
        THEN [ok |-> TRUE, val |-> fs[key].blob, opened |-> <<key>>]
        ELSE ThrownAbout("could not load", key)

\* SceneFormat::getMeshJson: the tree; the geometry is written on the way
getMeshJson(mesh, root, bmfFilename) ==
    JsonObject(
        Field("type", JsonString(mesh.type))
     @@ Field("file", JsonString(getRelativePath(root, bmfFilename)))
     @@ FieldIf(~isStatic(mesh.position), "position", getPathJson(mesh.position))
     @@ FieldIf(~isStatic(mesh.lookAt), "lookAt", getPathJson(mesh.lookAt)))

\* SceneFormat::saveMesh: the geometry file, then the tree
saveMesh(name, mesh) ==
    LET bmfFilename == absolute(AppendExtension(name, Bmf))
    IN  <<Write(FileKey(bmfFilename),
                BmfFile(mesh.type, IF mesh.type = Triangle THEN mesh.triangle
                                   ELSE mesh.billboard)),
          Write(saveFileName(name),
                getMeshJson(mesh, parent_path(name), bmfFilename))>>

\* SceneFormat::loadMeshJson
loadMeshJson(j, root, fs) ==
    LET mfile == GetString(At(j, "file"))
        strType == GetString(At(j, "type"))
        known == strType.ok /\ strType.val \in {Triangle, Billboard}
        blob == IF mfile.ok /\ known
                THEN loadFromFile(getAbsolutePath(root, mfile.val), strType.val, fs)
                ELSE Thrown("unknown mesh type")
        position == getPathOrDefault(j, "position", root, fs)
        lookAt == getPathOrDefault(j, "lookAt", root, fs)
    IN  Body(<<mfile, strType, blob, position, lookAt>>,
             LAMBDA v : [(IF v[2] = Triangle THEN TriangleMesh(v[3])
                          ELSE BillboardMesh(v[3]))
                         EXCEPT !.position = v[4], !.lookAt = v[5]])

\* SceneFormat::loadMesh
loadMesh(name, fs) ==
    LET file == openFile(name, fs)
    IN  IF ~file.ok THEN file
        ELSE After(file, loadMeshJson(file.val, parent_path(absolute(name)), fs))

\* Mesh::isStatic
MeshIsStatic(mesh) == isStatic(mesh.position) /\ isStatic(mesh.lookAt)

\* Mesh::isTransparent; a read past the end of the materials yields oob
isTransparent(mesh, materials, oob) ==
    \E i \in 1..Len(MeshMaterialIds(mesh)) :
        LET id == MeshMaterialIds(mesh)[i]
        IN  IF id < Len(materials)
            THEN Transparent \in materials[id + 1].data.flags
            ELSE oob

\* SceneFormat::generateMeshSuffix
generateMeshSuffix(mesh, materials, oob) ==
    LET suffix == IF ~MeshIsStatic(mesh) THEN <<"Moving">> ELSE <<>>
    IN  IF mesh.type = Billboard THEN suffix \o <<"Points">>
        ELSE IF isTransparent(mesh, materials, oob) THEN <<"Trans">> \o suffix
        ELSE suffix

\* ------------------------------------------------------------------------
\* SceneFormat::save and SceneFormat::load
\* ------------------------------------------------------------------------

\* SceneFormat::s_version
s_version == 5

\* enum class Component; All has every bit set
ComponentMesh == "Mesh"
ComponentCamera == "Camera"
ComponentLights == "Lights"
ComponentMaterial == "Material"
ComponentEnvironment == "Environment"
ComponentAll == {ComponentMesh, ComponentCamera, ComponentLights,
                 ComponentMaterial, ComponentEnvironment}

\* The document a SceneFormat object holds
SceneFormat(meshes, cam, lights, materials, env) ==
    [meshes |-> meshes, camera |-> cam, lights |-> lights,
     materials |-> materials, environment |-> env]

\* the generated suffix, never numbered
MeshSuffix_Unnumbered(d, i, oob) == generateMeshSuffix(d.meshes[i], d.materials, oob)

\* The suffix of the i-th mesh file: the generated suffix, numbered when it
\* is empty or was used before
MeshSuffix(d, i, oob) ==
    LET suffix(k) == generateMeshSuffix(d.meshes[k], d.materials, oob)
        id == Cardinality({k \in 1..i : suffix(k) = suffix(i)})
    IN  IF id > 1 \/ suffix(i) = <<>>
        THEN suffix(i) \o <<ToString(id)>>
        ELSE suffix(i)

\* What a save does: the writes it makes, in their order, and how it ends
Saved(writes, end) == [writes |-> writes, end |-> end]

\* The name a component file is referred to by in the root document
ComponentLink(absFilename, suffix) ==
    JsonString(AppendExtension(AppendSuffix(filename(absFilename), <<suffix>>),
                               Json))

\* SceneFormat::save
save(d, file, singleFile, components, oob) ==
    LET absFilename == absolute(file)
        rootDirectory == parent_path(absFilename)
        n == IF ComponentMesh \in components THEN Len(d.meshes) ELSE 0
        meshFilename(i) == AppendSuffix(absFilename, MeshSuffix(d, i, oob))
        meshWrites == [k \in 1..(2 * n) |->
                          saveMesh(meshFilename((k + 1) \div 2),
                                   d.meshes[(k + 1) \div 2])[2 - (k % 2)]]
        arr == JsonArray([i \in 1..n |->
                   JsonString(AppendExtension(filename(meshFilename(i)), Json))])
        mats == getMaterialsJson(d.materials, rootDirectory)
        lights == getLightsJson(d.lights)
        camera == getCameraJson(d.camera)
        env == getEnvironmentJson(d.environment, rootDirectory)
        part(suffix) == AppendSuffix(absFilename, <<suffix>>)
        link(suffix) == ComponentLink(absFilename, suffix)
        head == Field("version", JsonNumber(s_version))
             @@ FieldIf(ComponentMesh \in components, "meshes", arr)
    IN  IF ~lights.ok THEN Saved(meshWrites, lights)
        ELSE IF ~camera.ok THEN Saved(meshWrites, camera)
        ELSE IF singleFile
        THEN Saved(meshWrites \o
                   <<Write(saveFileName(absFilename), JsonObject(
                        head
                     @@ FieldIf(ComponentMaterial \in components, "materials", mats)
                     @@ FieldIf(ComponentLights \in components, "lights", lights.val)
                     @@ FieldIf(ComponentCamera \in components, "camera", camera.val)
                     @@ FieldIf(ComponentEnvironment \in components,
                                "environment", env)))>>,
                   Returned(0))
        ELSE Saved(meshWrites
                \o (IF ComponentMaterial \in components
                    THEN <<Write(saveFileName(part("_material")), mats)>> ELSE <<>>)
                \o (IF ComponentLights \in components
                    THEN <<Write(saveFileName(part("_light")), lights.val)>> ELSE <<>>)
                \o (IF ComponentCamera \in components
                    THEN <<Write(saveFileName(part("_camera")), camera.val)>> ELSE <<>>)
                \o (IF ComponentEnvironment \in components
                    THEN <<Write(saveFileName(part("_env")), env)>> ELSE <<>>)
                \o <<Write(saveFileName(absFilename), JsonObject(
                        head
                     @@ Field("materials", link("_material"))
                     @@ Field("lights", link("_light"))
                     @@ Field("camera", link("_camera"))
                     @@ Field("environment", link("_env"))))>>,
                   Returned(0))

\* j["version"].get<size_t>()
GetVersion(j) == IF j.type = "number" THEN Returned(j.value) ELSE TypeError

\* j["meshes"].get<std::vector<std::string>>()
GetStrings(j) ==
    IF j.type = "array" /\ \A i \in 1..Len(j.value) : j.value[i].type = "string"
    THEN Returned([i \in 1..Len(j.value) |-> j.value[i].value])
    ELSE TypeError

\* A version gate that lets every version up to the current one pass
VersionMatches_UpTo(version) == version <= s_version

\* The version gate of load
VersionMatches(version) == version = s_version

\* SceneFormat::load
load(file, fs) ==
    LET j == openFile(file, fs)
        version == IF j.ok THEN After(j, GetVersion(At(j.val, "version"))) ELSE j
        directory == parent_path(absolute(file))
        meshNames == GetStrings(At(j.val, "meshes"))
        meshes == IF ~meshNames.ok THEN <<meshNames>>
                  ELSE [i \in 1..Len(meshNames.val) |->
                           loadMesh(Slash(directory, meshNames.val[i]), fs)]
        camera == loadCameraJson(At(j.val, "camera"), directory, fs, Depth(fs))
        env == loadEnvironmentJson(At(j.val, "environment"), directory, fs, Depth(fs))
        materials == loadMaterialsJson(At(j.val, "materials"), directory, fs, Depth(fs))
        lights == loadLightsJson(At(j.val, "lights"), directory, fs, Depth(fs))
    IN  IF ~version.ok THEN version
        ELSE IF ~VersionMatches(version.val)
        THEN After(version, ThrownAbout("invalid version", file))
        ELSE Body(<<version>> \o meshes \o <<camera, env, materials, lights>>,
                  LAMBDA v : SceneFormat(SubSeq(v, 2, Len(v) - 4), v[Len(v) - 3],
                                         v[Len(v)], v[Len(v) - 1], v[Len(v) - 2]))

\* ------------------------------------------------------------------------
\* The codec at work: one value is encoded, the tree is decoded
\* ------------------------------------------------------------------------
MaxArity == 4
MaxCodecSections == 2

\* The directory the trees are encoded for, and a file for savePath
RootDirectory == FsPath(TRUE, Cwd, <<>>)
PathFile == FsPath(FALSE, <<>>, << <<"path">> >>)
MyTexture == FsPath(FALSE, <<>>, << <<"myTexture">> >>)
EnvMap == FsPath(FALSE, <<>>, << <<"envmap">>, <<"hdr">> >>)

\* What a codec function is given: a value in memory to encode, or only a
\* tree written by hand to decode
Input(kind, v) == [kind |-> kind, given |-> TRUE, v |-> v]
ByHand(kind) == [kind |-> kind, given |-> FALSE, v |-> Nothing]

Components == {0, One, 2 * One}
Vectors == {<<x, y, z>> : x \in Components, y \in Components, z \in Components}

\* Arrays of numbers of every length up to MaxArity, a number, and an array
\* that holds a string
VectorTrees ==
    UNION {{JsonArray([i \in 1..n |-> JsonNumber(e[i])]) :
                e \in [1..n -> {0, One}]} : n \in 0..MaxArity}
    \cup {JsonNumber(0), JsonNumber(One), JsonArray(<<JsonString("x")>>)}

MaterialDatas ==
    {MaterialDataDefault,
     [MaterialDataDefault EXCEPT !.albedo = <<2 * One, 2 * One, 2 * One>>],
     [MaterialDataDefault EXCEPT !.albedo = <<0, One, 0>>],
     [MaterialDataDefault EXCEPT !.emission = <<One, One, One>>,
                                 !.roughness = 0, !.coverage = 0,
                                 !.specular = One, !.metalness = One,
                                 !.translucency = One, !.ior = 150]}

MaterialInputs ==
    {FullMaterial("spec", [NoTextures EXCEPT !.albedo = t],
                  [data EXCEPT !.flags = flags]) :
        t \in {EmptyPath, MyTexture}, data \in MaterialDatas,
        flags \in SUBSET Flags}

CodecSections ==
    {PathSection(t, pos) : t \in {0, One},
                           pos \in {Origin, <<One, 0, 0>>, <<One, One, One>>}}

PathInputs ==
    UNION {{Path(section, scale) : section \in [1..k -> CodecSections],
                                   scale \in {0, One, 2 * One}} :
           k \in 0..MaxCodecSections}

APath == Path(<<PathSection(One, <<One, 0, 0>>)>>, 2 * One)

CameraInputs ==
    {FullCamera(CameraData(type, position, <<0, 0, One>>, 140, near, far,
                           speed, up), path, DefaultPath) :
        type \in {Pinhole},
        position \in {Origin, <<10 * One, 20 * One, 30 * One>>},
        near \in {CameraDataDefault.near, One},
        far \in {CameraDataDefault.far, One},
        speed \in {One, 2 * One},
        up \in {CameraDataDefault.up, <<0, 0, One>>, <<One, One, One>>},
        path \in {DefaultPath, APath}}
    \cup {FullCamera([CameraDataDefault EXCEPT !.type = "Other"],
                     DefaultPath, DefaultPath)}

EnvironmentInputs ==
    {Environment(map, EmptyPath, ambientUp, ambientDown, color) :
        map \in {EmptyPath, EnvMap},
        ambientUp \in {Origin, <<One, One, One>>, <<0, One, 0>>},
        ambientDown \in {Origin, <<One, 0, 0>>},
        color \in {Origin, <<0, One, One>>}}

\* Camera trees written by hand: the tree of the default camera with one
\* vector field replaced by an array of n numbers
CameraTrees ==
    {JsonObject((field :> JsonArray([i \in 1..n |-> JsonNumber(One)]))
                @@ getCameraJson(FullCamera(CameraDataDefault, DefaultPath,
                                            DefaultPath)).val.value) :
        field \in {"position", "up"}, n \in 0..MaxArity}

InitCodec ==
    /\ Construct(EmptyDoc)
    /\ m_path = DefaultPath
    /\ pathOp = "none"
    /\ sample = NoSample
    /\ FilesIdle
    /\ decoded = Nothing
    /\ codecOp = "none"
    /\ \/ /\ tree = Nothing
          /\ \/ \E v \in Vectors : value = Input("vec3", v)
             \/ \E m \in MaterialInputs : value = Input("material", m)
             \/ \E c \in CameraInputs : value = Input("camera", c)
             \/ \E e \in EnvironmentInputs : value = Input("environment", e)
             \/ \E p \in PathInputs : value = Input("path", p)
       \/ \E j \in VectorTrees :
            tree = j /\ value = ByHand("vec3")
       \/ \E j \in CameraTrees :
            tree = j /\ value = ByHand("camera")

\* An encoder is called with the value, a decoder with the tree
Encodes(kind) == value.kind = kind /\ value.given /\ codecOp = "none"
Decodes(kind) == value.kind = kind /\ tree # Nothing /\ decoded = Nothing

\* writeVec3(j, vec)
WriteVec3 ==
    /\ Encodes("vec3")
    /\ tree' = writeVec3(value.v)
    /\ codecOp' = "writeVec3"
    /\ UNCHANGED <<value, decoded, docVars, pathVars, fileVars>>

\* getVec3(j)
GetVec3 ==
    /\ Decodes("vec3")
    /\ decoded' = getVec3(tree)
    /\ codecOp' = "getVec3"
    /\ UNCHANGED <<value, tree, docVars, pathVars, fileVars>>

\* getMaterialsJson(materials, root)
GetMaterialsJson ==
    /\ Encodes("material")
    /\ tree' = getMaterialsJson(<<value.v>>, RootDirectory)
    /\ codecOp' = "getMaterialsJson"
    /\ UNCHANGED <<value, decoded, docVars, pathVars, fileVars>>

\* loadMaterialsJson(j, root)
LoadMaterialsJson ==
    /\ Decodes("material")
    /\ decoded' = loadMaterialsJson(tree, RootDirectory, files, Depth(files))
    /\ codecOp' = "loadMaterialsJson"
    /\ UNCHANGED <<value, tree, docVars, pathVars, fileVars>>

\* getCameraJson(camera); when it throws there is no tree
GetCameraJson ==
    /\ Encodes("camera")
    /\ LET j == getCameraJson(value.v)
       IN  tree' = IF j.ok THEN j.val ELSE Nothing
    /\ codecOp' = "getCameraJson"
    /\ UNCHANGED <<value, decoded, docVars, pathVars, fileVars>>

\* loadCameraJson(j, root)
LoadCameraJson ==
    /\ Decodes("camera")
    /\ decoded' = loadCameraJson(tree, RootDirectory, files, Depth(files))
    /\ codecOp' = "loadCameraJson"
    /\ UNCHANGED <<value, tree, docVars, pathVars, fileVars>>

\* getEnvironmentJson(env, root)
GetEnvironmentJson ==
    /\ Encodes("environment")
    /\ tree' = getEnvironmentJson(value.v, RootDirectory)
    /\ codecOp' = "getEnvironmentJson"
    /\ UNCHANGED <<value, decoded, docVars, pathVars, fileVars>>

\* loadEnvironmentJson(j, root)
LoadEnvironmentJson ==
    /\ Decodes("environment")
    /\ decoded' = loadEnvironmentJson(tree, RootDirectory, files, Depth(files))
    /\ codecOp' = "loadEnvironmentJson"
    /\ UNCHANGED <<value, tree, docVars, pathVars, fileVars>>

\* savePath(filename, path)
SavePath ==
    /\ Encodes("path")
    /\ tree' = getPathJson(value.v)
    /\ files' = AfterWrites(files, savePath(PathFile, value.v))
    /\ written' = savePath(PathFile, value.v)
    /\ codecOp' = "savePath"
    /\ fileOp' = "savePath"
    /\ UNCHANGED <<value, decoded, docVars, pathVars, m_environment, saved,
                   loaded>>

\* loadPath(filename)
LoadPath ==
    /\ Decodes("path")
    /\ decoded' = loadPath(PathFile, files, Depth(files))
    /\ codecOp' = "loadPath"
    /\ fileOp' = "loadPath"
    /\ UNCHANGED <<value, tree, docVars, pathVars, m_environment, files,
                   written, saved, loaded>>

NextCodec ==
    \/ WriteVec3 \/ GetVec3
    \/ GetMaterialsJson \/ LoadMaterialsJson
    \/ GetCameraJson \/ LoadCameraJson
    \/ GetEnvironmentJson \/ LoadEnvironmentJson
    \/ SavePath \/ LoadPath

SpecCodec == InitCodec /\ [][NextCodec]_vars

\* ------------------------------------------------------------------------
\* Properties of the codec
\* ------------------------------------------------------------------------

\* C12: for every subset of the six flag bits set on a material, decoding
\* the encoded material (loadMaterialJson of the entry getMaterialsJson
\* wrote) returns a material with exactly the same flag set.
C12_FlagsRoundTrip ==
    codecOp = "loadMaterialsJson" =>
        /\ decoded.ok
        /\ Len(decoded.val) = 1
        /\ decoded.val[1].data.flags = value.v.data.flags

\* C13: for every camera, decoding the encoded camera (loadCameraJson of
\* getCameraJson) returns the same type, position, direction, fov, near,
\* far, up and speed, whether or not an optional field has its default.
C13_CameraRoundTrip ==
    (codecOp = "loadCameraJson" /\ value.given) =>
        /\ decoded.ok
        /\ decoded.val.data = value.v.data

\* C15: for every path that passes verify, loadPath after savePath returns a
\* path with the same number of sections, the same time and position of
\* each section in the same order, the same scale (also the elided scale
\* 1) and the same open or closed topology, and that path passes verify.
C15_PathRoundTrip ==
    (codecOp = "loadPath" /\ PathVerify(value.v)) =>
        /\ decoded.ok
        /\ Len(decoded.val.m_sections) = Len(value.v.m_sections)
        /\ \A i \in 1..Len(value.v.m_sections) :
              /\ decoded.val.m_sections[i].time = value.v.m_sections[i].time
              /\ decoded.val.m_sections[i].position = value.v.m_sections[i].position
        /\ decoded.val.m_scale = value.v.m_scale
        /\ decoded.val.m_isCircle = value.v.m_isCircle
        /\ PathVerify(decoded.val)

\* A closed path of two sections with the elided scale was saved and loaded
C15_Witness ==
    /\ codecOp = "loadPath"
    /\ PathVerify(value.v)
    /\ Len(value.v.m_sections) = 2
    /\ value.v.m_sections[1].position # Origin
    /\ value.v.m_isCircle
    /\ value.v.m_scale = One
    /\ ~Has(tree, "scale")
    /\ decoded.ok

\* The optional fields of the encoded material and their defaults
MaterialFields ==
    {"albedo", "roughness", "coverage", "specular", "metalness", "emission",
     "translucency", "ior"}
MaterialMember(data, field) ==
    CASE field = "albedo" -> data.albedo
      [] field = "roughness" -> data.roughness
      [] field = "coverage" -> data.coverage
      [] field = "specular" -> data.specular
      [] field = "metalness" -> data.metalness
      [] field = "emission" -> data.emission
      [] field = "translucency" -> data.translucency
      [] field = "ior" -> data.ior

FlagFields ==
    {<<"transparent", Transparent>>, <<"volume", Volume>>,
     <<"ignore-normals", IgnoreNormals>>, <<"y-aligned", YOrientation>>,
     <<"texture-clamp", TextureClamp>>, <<"texture-spherical", TextureSpherical>>}

CameraFields == {"near", "far", "up"}
CameraMember(data, field) ==
    CASE field = "near" -> data.near
      [] field = "far" -> data.far
      [] field = "up" -> data.up

EnvironmentFields == {"ambientUp", "ambientDown"}
EnvironmentMember(env, field) ==
    CASE field = "ambientUp" -> env.ambientUp
      [] field = "ambientDown" -> env.ambientDown

\* C16: in the encoded material, camera, environment and path trees each
\* optional field is absent if and only if the value in memory equals the
\* default of its type, and a decoder that finds the field absent returns
\* that default.
C16_DefaultElision ==
    /\ codecOp = "getMaterialsJson" =>
        /\ \A f \in MaterialFields :
              ~Has(tree.value[1], f) <=>
                  MaterialMember(value.v.data, f) = MaterialMember(MaterialDataDefault, f)
        /\ \A f \in FlagFields :
              ~Has(tree.value[1], f[1]) <=>
                  ((f[2] \in value.v.data.flags) = (f[2] \in MaterialDataDefault.flags))
    /\ (codecOp = "loadMaterialsJson" /\ decoded.ok) =>
        /\ \A f \in MaterialFields :
              ~Has(tree.value[1], f) =>
                  MaterialMember(decoded.val[1].data, f) = MaterialMember(MaterialDataDefault, f)
        /\ \A f \in FlagFields :
              ~Has(tree.value[1], f[1]) =>
                  ((f[2] \in decoded.val[1].data.flags) = (f[2] \in MaterialDataDefault.flags))
    /\ (codecOp = "getCameraJson" /\ tree # Nothing) =>
        /\ \A f \in CameraFields :
              ~Has(tree, f) <=>
                  CameraMember(value.v.data, f) = CameraMember(CameraDataDefault, f)
        /\ ~Has(tree, "positionPath") <=> isStatic(value.v.positionPath)
        /\ ~Has(tree, "lookAtPath") <=> isStatic(value.v.lookAtPath)
    /\ (codecOp = "loadCameraJson" /\ decoded.ok) =>
        /\ \A f \in CameraFields :
              ~Has(tree, f) =>
                  CameraMember(decoded.val.data, f) = CameraMember(CameraDataDefault, f)
        /\ ~Has(tree, "positionPath") => isStatic(decoded.val.positionPath)
        /\ ~Has(tree, "lookAtPath") => isStatic(decoded.val.lookAtPath)
    /\ codecOp = "getEnvironmentJson" =>
        \A f \in EnvironmentFields :
            ~Has(tree, f) <=>
                EnvironmentMember(value.v, f) = EnvironmentMember(EnvironmentDefault, f)
    /\ (codecOp = "loadEnvironmentJson" /\ decoded.ok) =>
        \A f \in EnvironmentFields :
            ~Has(tree, f) =>
                EnvironmentMember(decoded.val, f) = EnvironmentMember(EnvironmentDefault, f)
    /\ codecOp = "savePath" => (~Has(tree, "scale") <=> value.v.m_scale = One)
    /\ (codecOp = "loadPath" /\ decoded.ok) =>
        (~Has(tree, "scale") => decoded.val.m_scale = One)

\* C17: writeVec3 writes a single number exactly when the three components
\* are equal and an array of three numbers otherwise; getVec3 of what
\* writeVec3 wrote is the vector; getVec3 expands a single number and an
\* array of one number to three equal components.
C17_VectorCollapse ==
    /\ codecOp = "writeVec3" =>
        /\ tree.type = "number" <=>
              (value.v[1] = value.v[2] /\ value.v[2] = value.v[3])
        /\ tree.type # "number" => (tree.type = "array" /\ Len(tree.value) = 3)
    /\ (codecOp = "getVec3" /\ value.given) => decoded = Returned(value.v)
    /\ (codecOp = "getVec3" /\ tree.type = "number") =>
        decoded = Returned(<<tree.value, tree.value, tree.value>>)
    /\ (codecOp = "getVec3" /\ tree.type = "array" /\ Len(tree.value) = 1
            /\ tree.value[1].type = "number") =>
        decoded = Returned(<<tree.value[1].value, tree.value[1].value,
                             tree.value[1].value>>)

\* A vector whose first two components agree was written as an array and
\* read back
C17_Witness ==
    /\ codecOp = "getVec3"
    /\ value.given
    /\ value.v = <<0, 0, One>>
    /\ tree.type = "array"
    /\ decoded.ok

\* ------------------------------------------------------------------------
\* Documents on the file system: a document is saved, a file is loaded
\* ------------------------------------------------------------------------
MaxFileMaterials == 2
MaxFileLights == 2
MaxFileMeshes == 2

\* All sequences over S of at most n elements
SeqsUpTo(S, n) == UNION {[1..k -> S] : k \in 0..n}

\* The names a document is saved under and loaded from: a plain name, a
\* name in a folder, and a name that has a dot in it
SceneFile == FsPath(FALSE, <<>>, << <<"test">> >>)
FolderFile == FsPath(FALSE, <<"out">>, << <<"test">> >>)
DottedFile == FsPath(FALSE, <<>>, << <<"scene">>, <<"v2">> >>)
FileNames == {SceneFile, FolderFile, DottedFile}

\* The document of the SaveLoad test
TestMeshes == <<TriangleMesh(TriangleBlob(<<0, 1>>, TRUE))>>

TestCamera ==
    FullCamera([CameraDataDefault EXCEPT !.fov = 140, !.far = One,
                    !.position = <<10 * One, 20 * One, 30 * One>>],
               DefaultPath, DefaultPath)

PointLight ==
    FullLight(LightData(Point, <<0, 30 * One, 0>>, <<One, 0, 0>>, One),
              DefaultPath)
DirectionalLight ==
    FullLight(LightData(Directional, <<10, 0 - One, 0>>, <<One, 0, One>>, 0),
              DefaultPath)
TestLights == <<PointLight, DirectionalLight>>

DefaultMaterial == FullMaterial("default", NoTextures, MaterialDataDefault)
SpecMaterial ==
    FullMaterial("spec", [NoTextures EXCEPT !.albedo = MyTexture],
                 [MaterialDataDefault EXCEPT !.flags = {Volume},
                                             !.specular = One])
TestMaterials == <<DefaultMaterial, SpecMaterial>>

TestEnvironment == Environment(EnvMap, EmptyPath, Origin, Origin, <<0, One, One>>)

TestDocument ==
    SceneFormat(TestMeshes, TestCamera, TestLights, TestMaterials,
                TestEnvironment)

\* The elements the arrays of a document are made of
FileMaterials ==
    {DefaultMaterial, SpecMaterial,
     FullMaterial("glass", NoTextures,
                  [MaterialDataDefault EXCEPT !.flags = {Transparent}])}

FileLights ==
    {PointLight, DirectionalLight,
     [PointLight EXCEPT !.path = APath],
     FullLight(LightData("Spot", Origin, <<One, One, One>>, One), DefaultPath)}

FileMeshes ==
    {TriangleMesh(TriangleBlob(<<0>>, TRUE)),
     TriangleMesh(TriangleBlob(<<1>>, TRUE)),
     BillboardMesh(PlainBillboardBlob(TRUE)),
     [TriangleMesh(TriangleBlob(<<>>, TRUE)) EXCEPT !.position = APath]}

FileCameras ==
    {TestCamera,
     FullCamera(CameraDataDefault, APath, DefaultPath),
     FullCamera([CameraDataDefault EXCEPT !.type = "Other"],
                DefaultPath, DefaultPath)}

FileEnvironments == {TestEnvironment, EnvironmentDefault}

\* The documents that are saved: the document of the test with one of its
\* arrays, or its camera and environment, replaced
Documents ==
    {SceneFormat(TestMeshes, TestCamera, TestLights, ms, TestEnvironment) :
        ms \in SeqsUpTo(FileMaterials, MaxFileMaterials)}
    \cup {SceneFormat(TestMeshes, TestCamera, ls, TestMaterials, TestEnvironment) :
            ls \in SeqsUpTo(FileLights, MaxFileLights)}
    \cup {SceneFormat(ms, TestCamera, TestLights, TestMaterials, TestEnvironment) :
            ms \in SeqsUpTo(FileMeshes, MaxFileMeshes)}
    \cup {SceneFormat(TestMeshes, c, TestLights, TestMaterials, e) :
            c \in FileCameras, e \in FileEnvironments}

\* The files a save leaves on an empty file system
SavedFiles(d, file, singleFile) ==
    AfterWrites(NoFiles, save(d, file, singleFile, ComponentAll, FALSE).writes)

\* A tree with one field set
WithField(j, name, v) == JsonObject((name :> v) @@ j.value)

\* Root documents of every layout whose version is not the current one
VersionFiles ==
    {[fs EXCEPT ![openFileName(SceneFile)] = WithField(@, "version", JsonNumber(v))] :
        fs \in {SavedFiles(TestDocument, SceneFile, s) : s \in BOOLEAN},
        v \in {0, s_version - 1, s_version + 1}}

\* The places of a single-file root document where a vector stands: behind
\* an optional field of the camera, of the environment and of the first
\* material, and behind a required field of the first light
VectorSpots == {<<"camera", "position">>, <<"environment", "color">>,
                <<"materials", "albedo">>, <<"lights", "color">>}

VectorAt(root, spot) ==
    LET part == At(root, spot[1])
    IN  IF part.type = "array"
        THEN IF part.value = <<>> THEN JsonNull ELSE At(part.value[1], spot[2])
        ELSE At(part, spot[2])

WithVectorAt(root, spot, v) ==
    LET part == At(root, spot[1])
    IN  WithField(root, spot[1],
            IF part.type = "array"
            THEN JsonArray([part.value EXCEPT ![1] = WithField(@, spot[2], v)])
            ELSE WithField(part, spot[2], v))

\* Single-file root documents with an array of n numbers at one place
ArityFiles ==
    {[fs EXCEPT ![openFileName(SceneFile)] =
          WithVectorAt(@, spot, JsonArray([i \in 1..n |-> JsonNumber(One)]))] :
        fs \in {SavedFiles(TestDocument, SceneFile, TRUE)},
        spot \in VectorSpots, n \in 0..MaxArity}

\* A scene written by hand whose parts are files of the folder "sub" that
\* refer to further files by relative names; the working directory holds a
\* path file of the same name as the one in the folder
SubDirectory == FsPath(TRUE, Cwd \o <<"sub">>, <<>>)
JsonFile(dir, name) == FsPath(FALSE, dir, <<name, Json>>)
SubPath == Path(<<PathSection(One, <<0, One, 0>>)>>, One)

NestedFiles ==
    LET at(dir, name) == FileKey(JsonFile(dir, name))
        sub == <<"sub">>
        here == JsonString(JsonFile(<<>>, <<"p">>))
    IN  (at(<<>>, <<"test">>) :> JsonObject(
            Field("version", JsonNumber(s_version))
         @@ Field("meshes", JsonArray(<<JsonString(JsonFile(sub, <<"mesh">>))>>))
         @@ Field("camera", JsonString(JsonFile(sub, <<"cam">>)))
         @@ Field("lights", JsonString(JsonFile(sub, <<"lights">>)))
         @@ Field("materials", JsonString(JsonFile(sub, <<"mats">>)))
         @@ Field("environment", JsonString(JsonFile(sub, <<"env">>)))))
     @@ (at(sub, <<"cam">>) :>
            WithField(getCameraJson(TestCamera).val, "positionPath", here))
     @@ (at(sub, <<"lights">>) :> JsonArray(
            <<WithField(LightJson(PointLight).val, "path", here)>>))
     @@ (at(sub, <<"mats">>) :> getMaterialsJson(TestMaterials, SubDirectory))
     @@ (at(sub, <<"env">>) :> getEnvironmentJson(TestEnvironment, SubDirectory))
     @@ (at(sub, <<"mesh">>) :> JsonObject(
            Field("type", JsonString(Triangle))
         @@ Field("file", JsonString(FsPath(FALSE, <<>>, << <<"mesh">>, Bmf >>)))
         @@ Field("position", here)))
     @@ (FileKey(FsPath(FALSE, sub, << <<"mesh">>, Bmf >>)) :>
            BmfFile(Triangle, TriangleBlob(<<0, 1>>, TRUE)))
     @@ (at(sub, <<"p">>) :> getPathJson(SubPath))
     @@ (at(<<>>, <<"p">>) :> getPathJson(APath))

HandWrittenFiles == VersionFiles \cup ArityFiles \cup {NestedFiles}

\* The document a SceneFormat object holds
Document ==
    SceneFormat(m_meshes, m_camera, m_lights, m_materials, m_environment)

InitFiles ==
    /\ \/ \E d \in Documents :
            Construct(d) /\ m_environment = d.environment /\ files = NoFiles
       \/ \E fs \in HandWrittenFiles :
            /\ Construct(TestDocument)
            /\ m_environment = TestDocument.environment
            /\ files = fs
    /\ m_path = DefaultPath
    /\ pathOp = "none"
    /\ sample = NoSample
    /\ CodecIdle
    /\ written = <<>>
    /\ saved = Nothing
    /\ loaded = Nothing
    /\ fileOp = "none"

\* The components a save is asked for
ComponentChoices == {ComponentAll, ComponentAll \ {ComponentMesh}}

\* save(filename, singleFile, components); a read past the end of the
\* materials made while the meshes are named yields either value
Save ==
    /\ saved = Nothing
    /\ \E file \in FileNames, singleFile \in BOOLEAN,
          components \in ComponentChoices, oob \in BOOLEAN :
          LET s == save(Document, file, singleFile, components, oob)
          IN  /\ files' = AfterWrites(files, s.writes)
              /\ written' = s.writes
              /\ saved' = [file |-> file, singleFile |-> singleFile,
                           components |-> components, end |-> s.end]
    /\ fileOp' = "save"
    /\ UNCHANGED <<docVars, pathVars, codecVars, m_environment, loaded>>

\* SceneFormat::load(filename)
Load ==
    /\ loaded = Nothing
    /\ \E file \in FileNames :
          loaded' = [file |-> file, result |-> load(file, files)]
    /\ fileOp' = "load"
    /\ UNCHANGED <<docVars, pathVars, codecVars, m_environment, files,
                   written, saved>>

NextFiles == Save \/ Load

SpecFiles == InitFiles /\ [][NextFiles]_vars

\* ------------------------------------------------------------------------
\* Properties of save and load
\* ------------------------------------------------------------------------

\* The root document a load of the given name opens
HasRoot(file) ==
    /\ openFileName(file) \in DOMAIN files
    /\ files[openFileName(file)].type = "object"
Root(file) == files[openFileName(file)]
HasVersion(file) == HasRoot(file) /\ At(Root(file), "version").type = "number"
VersionOf(file) == At(Root(file), "version").value

\* C11: a load of a root document whose version differs from s_version,
\* whether lower or higher, fails; it has then opened the root document
\* only, no mesh and no sub-document; the error names the file that was
\* asked for; and a load leaves every file as it was, so that nothing is
\* migrated.  A root document of the current version does not fail with
\* the version error.
C11_VersionGate ==
    /\ [](fileOp = "load" /\ HasVersion(loaded.file) =>
            IF VersionOf(loaded.file) # s_version
            THEN /\ ~loaded.result.ok
                 /\ loaded.result.what = "invalid version"
                 /\ loaded.result.about = loaded.file
                 /\ loaded.result.opened = <<openFileName(loaded.file)>>
            ELSE loaded.result.ok \/ loaded.result.what # "invalid version")
    /\ [][fileOp' = "load" /\ loaded' # loaded => files' = files]_vars

\* A root document of the version before the current one, which refers to a
\* mesh file and to component files, was loaded
C11_Witness ==
    /\ fileOp = "load"
    /\ HasVersion(loaded.file)
    /\ VersionOf(loaded.file) = s_version - 1
    /\ At(Root(loaded.file), "meshes").type = "array"
    /\ At(Root(loaded.file), "meshes").value # <<>>
    /\ At(Root(loaded.file), "camera").type = "string"
    /\ ~loaded.result.ok

\* The last operation was a load of the name the document was saved under
\* with all components, and that save had returned
LoadedWhatWasSaved ==
    /\ fileOp = "load"
    /\ saved # Nothing
    /\ saved.components = ComponentAll
    /\ saved.end.ok
    /\ loaded.file = saved.file

\* C14: when a document was saved and the same name is loaded, the document
\* that load returns has as many materials, lights and meshes as the saved
\* one, and element i corresponds to element i: the same material name, the
\* same light type with the position (of a point light, also the radius) or
\* direction, the same mesh type with the same material indices.  For a
\* name without a dot the load does return a document.
C14_OrderPreserved ==
    LoadedWhatWasSaved =>
        /\ Len(saved.file.name) = 1 => loaded.result.ok
        /\ loaded.result.ok =>
            LET after == loaded.result.val
            IN  /\ Len(after.materials) = Len(m_materials)
                /\ \A i \in 1..Len(m_materials) :
                      after.materials[i].name = m_materials[i].name
                /\ Len(after.lights) = Len(m_lights)
                /\ \A i \in 1..Len(m_lights) :
                      /\ after.lights[i].data.type = m_lights[i].data.type
                      /\ after.lights[i].data.position = m_lights[i].data.position
                      /\ m_lights[i].data.type = Point =>
                            after.lights[i].data.radius = m_lights[i].data.radius
                /\ Len(after.meshes) = Len(m_meshes)
                /\ \A i \in 1..Len(m_meshes) :
                      /\ after.meshes[i].type = m_meshes[i].type
                      /\ MeshMaterialIds(after.meshes[i]) = MeshMaterialIds(m_meshes[i])

\* A document of two materials, two lights of different types and two
\* meshes of different types was saved and loaded
C14_Witness ==
    /\ LoadedWhatWasSaved
    /\ loaded.result.ok
    /\ Len(m_materials) = 2
    /\ m_materials[1].name # m_materials[2].name
    /\ Len(m_lights) = 2
    /\ m_lights[1].data.type # m_lights[2].data.type
    /\ Len(m_meshes) = 2
    /\ m_meshes[1].type # m_meshes[2].type
    /\ MeshMaterialIds(m_meshes[1]) # <<>>

\* An array whose length is neither 1 nor 3
BadArity(j) == j.type = "array" /\ Len(j.value) \notin {1, 3}

\* The root document the last load opened has such an array where a vector
\* is expected, and everything load reads before it is in order
RootWithBadVector(spot) ==
    /\ fileOp = "load"
    /\ HasVersion(loaded.file)
    /\ VersionOf(loaded.file) = s_version
    /\ At(Root(loaded.file), "camera").type = "object"
    /\ At(Root(loaded.file), "environment").type = "object"
    /\ At(Root(loaded.file), "materials").type = "array"
    /\ At(Root(loaded.file), "lights").type = "array"
    /\ BadArity(VectorAt(Root(loaded.file), spot))

\* C18: getVec3 of an array of 0, 2, 4 or more numbers throws and returns
\* no vector, and so does getOrDefault for an optional field that holds
\* such an array; a load of a root document that has such an array behind
\* an optional field (camera position, environment colour, material
\* albedo) or behind a required one (light colour) throws that error and
\* returns no document.
C18_BadArityFails ==
    /\ \A j \in VectorTrees :
          BadArity(j) =>
              /\ ~getVec3(j).ok
              /\ getVec3(j).what = ArityError(Len(j.value)).what
              /\ ~getOrDefaultVec3(JsonObject(Field("up", j)), "up", Origin).ok
    /\ \A spot \in VectorSpots :
          RootWithBadVector(spot) =>
              /\ ~loaded.result.ok
              /\ loaded.result.what = ArityError(0).what

\* A root document with an array of two numbers as the camera position, or
\* one with an array of four numbers as the colour of a light, was loaded
C18_Witness ==
    \/ /\ RootWithBadVector(<<"camera", "position">>)
       /\ Len(VectorAt(Root(loaded.file), <<"camera", "position">>).value) = 2
       /\ ~loaded.result.ok
    \/ /\ RootWithBadVector(<<"lights", "color">>)
       /\ Len(VectorAt(Root(loaded.file), <<"lights", "color">>).value) = 4
       /\ ~loaded.result.ok

\* What a decoder yields, apart from the files it opened
Yield(r) ==
    IF r.ok THEN [ok |-> TRUE, val |-> r.val] ELSE [ok |-> FALSE, what |-> r.what]

\* The directories of the file system, and the files of the file system as
\* they are named from a directory
Directories == {parent_path(f) : f \in DOMAIN files} \cup {RootDirectory}
JsonFilesFrom(root) ==
    {relative(f, root) : f \in {g \in DOMAIN files : files[g].type # "bmf"}}

\* The file a relative name stands for in the file of a directory
Named(root, name) == FileKey(FsPath(TRUE, root.dir \o name.dir, name.name))

\* The name in field `name` of tree j, taken from directory root
NamedIn(j, name, root) ==
    IF Has(j, name) /\ At(j, name).type = "string"
    THEN FsPath(TRUE, root.dir \o At(j, name).value.dir, At(j, name).value.name)
    ELSE EmptyPath

\* The root document the last load opened names a file for its materials
\* (environment), and load returned a document
LoadedFrom(part) ==
    /\ fileOp = "load"
    /\ loaded.result.ok
    /\ HasRoot(loaded.file)
    /\ At(Root(loaded.file), part).type = "string"
    /\ Named(parent_path(absolute(loaded.file)), At(Root(loaded.file), part).value)
          \in DOMAIN files
PartFile(part) ==
    Named(parent_path(absolute(loaded.file)), At(Root(loaded.file), part).value)

\* C19: for the materials, lights, camera, environment and path decoder,
\* for every directory and every file F of the file system, decoding the
\* string that names F from that directory yields what decoding the content
\* of F with F's directory as root yields (the same value or the same
\* error), also when F refers to further files; and in a document loaded
\* through a materials or environment file, each texture and environment
\* map is the name written in that file taken from that file's directory.
C19_ReferenceIsInline ==
    /\ \A root \in Directories : \A name \in JsonFilesFrom(root) :
          LET f == Named(root, name)
              node == JsonString(name)
              there == FsPath(TRUE, root.dir \o name.dir, <<>>)
              d == Depth(files)
          IN  /\ Yield(loadMaterialsJson(node, root, files, d + 1))
                    = Yield(loadMaterialsJson(files[f], there, files, d))
              /\ Yield(loadLightsJson(node, root, files, d + 1))
                    = Yield(loadLightsJson(files[f], there, files, d))
              /\ Yield(loadCameraJson(node, root, files, d + 1))
                    = Yield(loadCameraJson(files[f], there, files, d))
              /\ Yield(loadEnvironmentJson(node, root, files, d + 1))
                    = Yield(loadEnvironmentJson(files[f], there, files, d))
              /\ Yield(loadPathJson(node, root, files, d + 1))
                    = Yield(loadPathJson(files[f], there, files, d))
    /\ LoadedFrom("materials") =>
          LET f == PartFile("materials")
          IN  \A i \in 1..Len(loaded.result.val.materials) :
                  loaded.result.val.materials[i].textures.albedo
                      = NamedIn(files[f].value[i], "albedoTex", parent_path(f))
    /\ LoadedFrom("environment") =>
          LET f == PartFile("environment")
          IN  loaded.result.val.environment.map
                  = NamedIn(files[f], "map", parent_path(f))

\* A scene whose camera, lights, materials and environment are files of a
\* folder was loaded; the camera file names a path file of that folder,
\* which was read, and the texture and the environment map lie in the folder
C19_Witness ==
    /\ LoadedFrom("materials")
    /\ LoadedFrom("environment")
    /\ At(Root(loaded.file), "camera").type = "string"
    /\ At(Root(loaded.file), "camera").value.dir = <<"sub">>
    /\ At(files[PartFile("camera")], "positionPath").type = "string"
    /\ loaded.result.val.camera.positionPath = SubPath
    /\ loaded.result.val.lights[1].path = SubPath
    /\ loaded.result.val.meshes[1].position = SubPath
    /\ loaded.result.val.materials[2].textures.albedo
          = FsPath(TRUE, Cwd \o <<"sub">>, MyTexture.name)
    /\ loaded.result.val.environment.map = FsPath(TRUE, Cwd \o <<"sub">>, EnvMap.name)

\* The document a load returned, or that it returned none
Returns(r) == IF r.ok THEN [ok |-> TRUE, val |-> r.val] ELSE [ok |-> FALSE]

\* Every material index of every mesh is within the materials
IndicesInBounds ==
    \A i \in 1..Len(m_meshes) :
        \A k \in 1..Len(MeshMaterialIds(m_meshes[i])) :
            MeshMaterialIds(m_meshes[i])[k] < Len(m_materials)

\* The last operation was a load of the name the document was saved under
\* with all components, and the file system holds what that save wrote
LoadedAfterSaveAll ==
    /\ fileOp = "load"
    /\ saved # Nothing
    /\ saved.components = ComponentAll
    /\ loaded.file = saved.file
    /\ DOMAIN files = {written[i].name : i \in 1..Len(written)}
    /\ IndicesInBounds

\* C20: for every document and every file name, the load after a save with
\* all components returns the same document, or returns none, as the load
\* after the save of that document under that name in the other layout.
C20_LayoutIndependence ==
    LoadedAfterSaveAll =>
        Returns(loaded.result)
            = Returns(load(saved.file,
                           SavedFiles(Document, saved.file, ~saved.singleFile)))

\* ------------------------------------------------------------------------
\* Scenes of several meshes being saved: the names of the mesh files
\* ------------------------------------------------------------------------
MaxNamedMeshes == 3

GlassMaterial ==
    FullMaterial("glass", NoTextures,
                 [MaterialDataDefault EXCEPT !.flags = {Transparent}])

\* static or moving, opaque or transparent, triangles or billboards, and a
\* mesh whose material index is past the end of the materials
NamedMeshes ==
    LET opaque == TriangleMesh(TriangleBlob(<<0>>, TRUE))
        glass == TriangleMesh(TriangleBlob(<<1>>, TRUE))
        points == BillboardMesh(PlainBillboardBlob(TRUE))
        past == TriangleMesh(TriangleBlob(<<2>>, TRUE))
    IN  {opaque, points, past,
         [opaque EXCEPT !.position = APath],
         [glass EXCEPT !.lookAt = APath],
         [points EXCEPT !.position = APath]}

InitSave ==
    /\ \E ms \in SeqsUpTo(NamedMeshes, MaxNamedMeshes) :
          /\ Construct(SceneFormat(ms, TestCamera, TestLights,
                                   <<DefaultMaterial, GlassMaterial>>,
                                   TestEnvironment))
          /\ m_environment = TestEnvironment
    /\ files = NoFiles
    /\ m_path = DefaultPath
    /\ pathOp = "none"
    /\ sample = NoSample
    /\ CodecIdle
    /\ written = <<>>
    /\ saved = Nothing
    /\ loaded = Nothing
    /\ fileOp = "none"

SpecSave == InitSave /\ [][Save]_vars

\* the save of the meshes has been made
SavedMeshes == fileOp = "save" /\ ComponentMesh \in saved.components

\* the names the root document lists its meshes under
ListedMeshes == At(written[Len(written)].content, "meshes").value

\* the geometry file of mesh i
GeometryFile(i) == written[2 * i - 1]

\* the name the claim gives mesh i, when the suffixes are as `suffix` says
ClaimedName(suffix, i) ==
    LET id == Cardinality({k \in 1..i : suffix[k] = suffix[i]})
        number == IF suffix[i] = <<>> \/ id > 1 THEN <<ToString(id)>> ELSE <<>>
    IN  JsonString(AppendExtension(
            AppendSuffix(filename(absolute(saved.file)), suffix[i] \o number), Json))

\* C21: within one save the names of the mesh files, and the geometry files
\* written, are pairwise distinct; the first mesh of a non-empty suffix is
\* named by the bare suffix, a later one by the suffix and its occurrence
\* count, and a mesh with an empty suffix always by its count.
C21_DistinctMeshNames ==
    SavedMeshes =>
        /\ Len(ListedMeshes) = Len(m_meshes)
        /\ \A i \in 1..Len(m_meshes) : \A j \in 1..Len(m_meshes) :
                i # j => /\ ListedMeshes[i] # ListedMeshes[j]
                         /\ GeometryFile(i).name # GeometryFile(j).name
        /\ \A i \in 1..Len(m_meshes) : GeometryFile(i).content.type = "bmf"
        /\ \E oob \in BOOLEAN :
             LET suffix == [k \in 1..Len(m_meshes) |->
                              generateMeshSuffix(m_meshes[k], m_materials, oob)]
             IN  \A i \in 1..Len(m_meshes) : ListedMeshes[i] = ClaimedName(suffix, i)

C21_Witness ==
    /\ SavedMeshes
    /\ saved.file = SceneFile
    /\ Len(m_meshes) = 3
    /\ generateMeshSuffix(m_meshes[1], m_materials, FALSE) = <<>>
    /\ generateMeshSuffix(m_meshes[2], m_materials, FALSE) = <<"Trans", "Moving">>
    /\ m_meshes[3] = m_meshes[2]
    /\ ListedMeshes =
         <<JsonString(FsPath(FALSE, <<>>, << <<"test", "1">>, <<"json">> >>)),
           JsonString(FsPath(FALSE, <<>>, << <<"test", "Trans", "Moving">>, <<"json">> >>)),
           JsonString(FsPath(FALSE, <<>>,
                             << <<"test", "Trans", "Moving", "2">>, <<"json">> >>))>>

\* ------------------------------------------------------------------------
\* The order of the writes of a save
\* ------------------------------------------------------------------------
SaveReturned == fileOp = "save" /\ saved.end.ok

RootWrite == written[Len(written)]
WrittenBeforeRoot == {written[k].name : k \in 1..(Len(written) - 1)}

\* the file a name in the root document stands for when the document is loaded
ReferencedFile(name) == openFileName(Slash(parent_path(absolute(saved.file)), name))

ComponentFields == {"materials", "lights", "camera", "environment"}
ComponentSuffix ==
    (ComponentMaterial :> "_material") @@ (ComponentLights :> "_light")
 @@ (ComponentCamera :> "_camera") @@ (ComponentEnvironment :> "_env")

\* the names the root document refers to files by
RootReferences ==
    (IF Has(RootWrite.content, "meshes")
     THEN {ListedMeshes[i].value : i \in 1..Len(ListedMeshes)} ELSE {})
    \cup {At(RootWrite.content, f).value :
            f \in {g \in ComponentFields : /\ Has(RootWrite.content, g)
                                         /\ At(RootWrite.content, g).type = "string"}}

\* the mesh and component files the save was asked to write
FilesAsked ==
    (IF ComponentMesh \in saved.components
     THEN {saveFileName(AppendSuffix(absolute(saved.file), MeshSuffix(Document, i, oob))) :
             i \in 1..Len(m_meshes), oob \in BOOLEAN}
     ELSE {})
    \cup (IF saved.singleFile THEN {}
          ELSE {saveFileName(AppendSuffix(absolute(saved.file), <<ComponentSuffix[c]>>)) :
                  c \in saved.components \ {ComponentMesh}})

\* C27 (as claimed): in a save that returns, the root document is the last
\* file written, every mesh file and every selected component file is
\* written before it, and with all components selected every file the root
\* document refers to by name has been written before it.
C27_RootWrittenLast ==
    SaveReturned =>
        /\ RootWrite.name = saveFileName(absolute(saved.file))
        /\ Has(RootWrite.content, "version")
        /\ \A k \in 1..(Len(written) - 1) : written[k].content # RootWrite.content
        /\ Len(written) = 1
             + (IF ComponentMesh \in saved.components THEN 2 * Len(m_meshes) ELSE 0)
             + (IF saved.singleFile THEN 0
                ELSE Cardinality(saved.components \ {ComponentMesh}))
        /\ \A f \in WrittenBeforeRoot :
                f \in FilesAsked \/ files[f].type = "bmf" \/ f = RootWrite.name
        /\ saved.components = ComponentAll =>
                \A name \in RootReferences : ReferencedFile(name) \in WrittenBeforeRoot

\* ------------------------------------------------------------------------
\* A document saved over a saved document, with a file that cannot be
\* written
\* ------------------------------------------------------------------------

\* save, when saveFile (or the writer of the geometry) cannot open the file
\* of its `refused`-th write and throws (lines 564-566): the writes before
\* it have been made. Every write is made when `refused` is 0.
saveRefused(d, file, singleFile, components, oob, refused) ==
    LET s == save(d, file, singleFile, components, oob)
    IN  IF refused \in 1..Len(s.writes)
        THEN Saved(SubSeq(s.writes, 1, refused - 1),
                   ThrownAbout("could not save", s.writes[refused].name))
        ELSE s

\* the file system holds the document of the test, saved in either layout
InitResave ==
    /\ \E d \in Documents, singleFile \in BOOLEAN :
          /\ Construct(d)
          /\ m_environment = d.environment
          /\ files = SavedFiles(TestDocument, SceneFile, singleFile)
    /\ m_path = DefaultPath
    /\ pathOp = "none"
    /\ sample = NoSample
    /\ CodecIdle
    /\ written = <<>>
    /\ saved = Nothing
    /\ loaded = Nothing
    /\ fileOp = "none"

\* the most writes a save of the model makes
MaxWrites == 2 * MaxFileMeshes + 5

\* save(SceneFile, singleFile, All) of the document held, over the files
\* that are there
SaveOver ==
    /\ saved = Nothing
    /\ loaded = Nothing
    /\ \E singleFile \in BOOLEAN, oob \in BOOLEAN, refused \in 0..MaxWrites :
          LET s == saveRefused(Document, SceneFile, singleFile, ComponentAll, oob, refused)
          IN  /\ refused <= Len(save(Document, SceneFile, singleFile, ComponentAll, oob).writes)
              /\ files' = AfterWrites(files, s.writes)
              /\ written' = s.writes
              /\ saved' = [file |-> SceneFile, singleFile |-> singleFile,
                           components |-> ComponentAll, end |-> s.end]
    /\ fileOp' = "save"
    /\ UNCHANGED <<docVars, pathVars, codecVars, m_environment, loaded>>

NextResave == SaveOver \/ Load

SpecResave == InitResave /\ [][NextResave]_vars

\* what load returned for the document of the test before anything was
\* saved over it
PreviouslySaved == Returns(load(SceneFile, SavedFiles(TestDocument, SceneFile, TRUE)))

\* C23 (as claimed): after a save over a saved document has failed, loading
\* the file name succeeds and returns the document saved before.
C23_FailedSaveKeepsDocument ==
    (/\ fileOp = "load"
     /\ saved # Nothing
     /\ ~saved.end.ok
     /\ loaded.file = saved.file)
        => /\ loaded.result.ok
           /\ Returns(loaded.result) = PreviouslySaved

====
